---- MODULE Spec2Model ----
(***************************************************************************)
(* Model of the SDF writer of sdf_timing (sdfwrite.py): the legacy writer  *)
(* emit_sdf with emit_delay_entries / emit_timingcheck_entries /           *)
(* emit_timingenv_entries / gen_timing_entry, and the writer print_sdf     *)
(* with format_triplet / print_timing_record.                              *)
(*                                                                         *)
(* Text is a sequence of atoms.  An atom is one character, or one of the   *)
(* cell-level keywords of the source literals with its opening parenthesis *)
(* ("(DELAYFILE", "(CELL", "(IOPATH", ...).  All data (names, pins,        *)
(* equations, numbers, header keys and values), all white space and all    *)
(* other punctuation are spelled character by character, so that           *)
(* str.replace, str.upper, str.startswith, re.match and sorted() are       *)
(* modelled on characters.                                                 *)
(*                                                                         *)
(* A Python dict is a sequence of <<key, value>> pairs in insertion order. *)
(* An optional value is <<>> (None) or <<v>>.                              *)
(*                                                                         *)
(* The reader (sdfparse, sdflex, sdfyacc) is modelled by its contract: a   *)
(* lexer, one operator per grammar rule and the Document Builder.  What    *)
(* sdfwrite.parse and the tests show of it is modelled from them: the      *)
(* module-level parser object with its start symbol (sdfyacc.parser) and   *)
(* the module-level input text (sdflex.input_data).                        *)
(*                                                                         *)
(* The tool utils/reformat.py is modelled with the files of the machine    *)
(* (disk: path to content, <<>> for a missing file) and the set of paths   *)
(* it opened for writing.                                                  *)
(***************************************************************************)
EXTENDS Integers, Sequences, FiniteSets, TLC

VARIABLES sdfdata, pc, writer, args, result, input_data, parser, disk, opened

vars == <<sdfdata, pc, writer, args, result, input_data, parser, disk, opened>>

\* the module-level state of the reader: sdflex.input_data, sdfyacc.parser
globals == <<input_data, parser>>

\* the files of the machine and the paths that were opened for writing
filesystem == <<disk, opened>>

(***************************************************************************)
(* Bounds of the model.                                                    *)
(***************************************************************************)
\* the number of header items, cells, instances and entries of a Document
MaxSize == 4

\* the number of constructs written in one cell of a text
MaxConstructs == 3

(***************************************************************************)
(* Characters and strings.                                                 *)
(***************************************************************************)
\* the characters of the model in ascending code point order
Ascii ==
  <<"\n", " ", "\"", "&", "'", "(", ")", "-", ".", "/",
    "0", "1", "2", "3", "4", "5", "6", "7", "8", "9", ":", "=",
    "A", "B", "C", "D", "E", "F", "G", "H", "I", "J", "K", "L", "M",
    "N", "O", "P", "Q", "R", "S", "T", "U", "V", "W", "X", "Y", "Z", "_",
    "a", "b", "c", "d", "e", "f", "g", "h", "i", "j", "k", "l", "m",
    "n", "o", "p", "q", "r", "s", "t", "u", "v", "w", "x", "y", "z", "|">>

Ord(c) == CHOOSE i \in 1..Len(Ascii) : Ascii[i] = c

DigitChars == <<"0", "1", "2", "3", "4", "5", "6", "7", "8", "9">>

IsDigit(c) == \E i \in 1..Len(DigitChars) : DigitChars[i] = c

LowerChars ==
  <<"a", "b", "c", "d", "e", "f", "g", "h", "i", "j", "k", "l", "m",
    "n", "o", "p", "q", "r", "s", "t", "u", "v", "w", "x", "y", "z">>

UpperChars ==
  <<"A", "B", "C", "D", "E", "F", "G", "H", "I", "J", "K", "L", "M",
    "N", "O", "P", "Q", "R", "S", "T", "U", "V", "W", "X", "Y", "Z">>

\* str.upper() of one character
upper_char(c) ==
  IF \E i \in 1..26 : LowerChars[i] = c
  THEN UpperChars[CHOOSE i \in 1..26 : LowerChars[i] = c]
  ELSE c

\* str.upper()
upper(s) == [i \in 1..Len(s) |-> upper_char(s[i])]

\* n spaces
Sp(n) == [i \in 1..n |-> " "]

\* str.startswith(prefix)
startswith(s, prefix) ==
  /\ Len(prefix) <= Len(s)
  /\ SubSeq(s, 1, Len(prefix)) = prefix

\* p occurs in s as a contiguous piece (Python: p in s)
Occurs(p, s) ==
  \E i \in 1..(Len(s) - Len(p) + 1) : SubSeq(s, i, i + Len(p) - 1) = p

\* str.replace(old, new) for a non-empty old: the matches are taken left to
\* right and do not overlap; i is where the search for the next match starts
RECURSIVE replace_from(_, _, _, _)
replace_from(s, old, new, i) ==
  LET matches == {j \in i..(Len(s) - Len(old) + 1) :
                    SubSeq(s, j, j + Len(old) - 1) = old}
  IN IF matches = {} THEN SubSeq(s, i, Len(s))
     ELSE LET j == CHOOSE m \in matches : \A n \in matches : m <= n
          IN SubSeq(s, i, j - 1) \o new
             \o replace_from(s, old, new, j + Len(old))

replace(s, old, new) == replace_from(s, old, new, 1)

\* the order of Python strings: lexicographic by code point
str_less(a, b) ==
  LET n == IF Len(a) < Len(b) THEN Len(a) ELSE Len(b)
      diff == {i \in 1..n : a[i] # b[i]}
  IN IF diff = {} THEN Len(a) < Len(b)
     ELSE LET i == CHOOSE j \in diff : \A k \in diff : j <= k
          IN Ord(a[i]) < Ord(b[i])

\* sorted() of a set of strings
RECURSIVE sorted_set(_)
sorted_set(S) ==
  IF S = {} THEN <<>>
  ELSE LET m == CHOOSE x \in S : \A y \in S \ {x} : str_less(x, y)
       IN <<m>> \o sorted_set(S \ {m})

\* str() of a non-negative integer
RECURSIVE digits(_)
digits(n) ==
  IF n < 10 THEN <<DigitChars[n + 1]>>
  ELSE digits(n \div 10) \o <<DigitChars[(n % 10) + 1]>>

\* str() of an integer
int_str(n) == IF n < 0 THEN <<"-">> \o digits(0 - n) ELSE digits(n)

\* the text str.format() puts in for an optional number: str(v), "None" for None
NoneText == <<"N", "o", "n", "e">>

format_num(v) == IF v = <<>> THEN NoneText ELSE int_str(v[1])

\* the text str.format() puts in for an optional string
format_str(v) == IF v = <<>> THEN NoneText ELSE v[1]

(***************************************************************************)
(* Python dicts as sequences of <<key, value>> pairs.                      *)
(***************************************************************************)
keys(d) == {d[i][1] : i \in 1..Len(d)}

has_key(d, k) == \E i \in 1..Len(d) : d[i][1] = k

get(d, k) == d[CHOOSE i \in 1..Len(d) : d[i][1] = k][2]

\* d[k] = v : a new key goes last, an old key keeps its place
set_item(d, k, v) ==
  IF has_key(d, k)
  THEN [i \in 1..Len(d) |-> IF d[i][1] = k THEN <<k, v>> ELSE d[i]]
  ELSE Append(d, <<k, v>>)

\* sorted(d): the keys of the dict in ascending order
sorted(d) == sorted_set(keys(d))

(***************************************************************************)
(* Results of a call: the text returned (emit_sdf) or printed (print_sdf), *)
(* or an exception.                                                        *)
(***************************************************************************)
Ok(t) == [ok |-> TRUE, text |-> t]

Raise(t) == [ok |-> FALSE, text |-> t]

\* two steps one after the other: an exception of either is the outcome,
\* else the texts are joined
concat(a, b) ==
  IF ~a.ok \/ ~b.ok THEN Raise(<<>>) ELSE Ok(a.text \o b.text)

(***************************************************************************)
(* Python values of delay_paths.  A triple is a dict with the keys min,    *)
(* avg, max; iterating a dict yields its keys, which are strings.          *)
(***************************************************************************)
Triple(mn, av, mx) == [py |-> "dict", min |-> mn, avg |-> av, max |-> mx]

PyStr(s) == [py |-> "str", s |-> s]

\* delay_paths as a mapping from slot name to triple (a sequence of records
\* [slot, value] in insertion order), or as a list of triples
DictPaths(items) == [form |-> "dict", items |-> items]

Slot(slot, value) == [slot |-> slot, value |-> value]

ListPaths(items) == [form |-> "list", items |-> items]

\* the values a for loop over delay_paths yields
iterate(dp) ==
  IF dp.form = "list" THEN dp.items
  ELSE [i \in 1..Len(dp.items) |-> PyStr(dp.items[i].slot)]

\* delay_paths[slot] raises unless delay_paths is a dict that has the slot
can_subscript(dp, slot) ==
  dp.form = "dict" /\ \E i \in 1..Len(dp.items) : dp.items[i].slot = slot

\* delay_paths[slot]
subscript(dp, slot) ==
  dp.items[CHOOSE i \in 1..Len(dp.items) : dp.items[i].slot = slot].value

(***************************************************************************)
(* gen_timing_entry                                                        *)
(***************************************************************************)
gen_timing_entry(entry) ==
  IF entry.py # "dict" THEN Raise(<<>>)
  ELSE IF entry.min = <<>> /\ entry.avg = <<>> /\ entry.max = <<>>
       THEN Ok(<<"(", ")">>)
       ELSE Ok(<<"(">> \o format_num(entry.min) \o <<":">>
               \o format_num(entry.avg) \o <<":">>
               \o format_num(entry.max) \o <<")">>)

\* gen_timing_entry(delay['delay_paths'][slot])
gen_slot(delay, slot) ==
  IF can_subscript(delay.delay_paths, slot)
  THEN gen_timing_entry(subscript(delay.delay_paths, slot))
  ELSE Raise(<<>>)

(***************************************************************************)
(* The port strings of an entry (the same code in the three emitters).     *)
(***************************************************************************)
output_str(delay) ==
  IF delay.to_pin_edge # <<>>
  THEN <<"(">> \o delay.to_pin_edge[1] \o <<" ">> \o delay.to_pin \o <<")">>
  ELSE delay.to_pin

input_str(delay) ==
  IF delay.from_pin_edge # <<>>
  THEN <<"(">> \o delay.from_pin_edge[1] \o <<" ">> \o delay.from_pin \o <<")">>
  ELSE delay.from_pin

(***************************************************************************)
(* emit_timingenv_entries                                                  *)
(***************************************************************************)
\* the text of one entry of the loop
timingenv_entry(delay) ==
  concat(Ok(<<"\n">> \o Sp(16) \o <<"(PATHCONSTRAINT", " ">>
            \o output_str(delay) \o <<" ">> \o input_str(delay) \o <<" ">>),
    concat(gen_slot(delay, "rise"),
      concat(Ok(<<" ">>),
        concat(gen_slot(delay, "fall"), Ok(<<")">>)))))

\* the loop over sorted(delays), from the i-th key on
RECURSIVE timingenv_loop(_, _, _)
timingenv_loop(delays, ks, i) ==
  IF i > Len(ks) THEN Ok(<<>>)
  ELSE concat(IF get(delays, ks[i]).is_timing_env
              THEN timingenv_entry(get(delays, ks[i]))
              ELSE Ok(<<>>),
              timingenv_loop(delays, ks, i + 1))

\* the block around the entries of a loop; no block when there are none
entries_block(opening, entries) ==
  IF ~entries.ok THEN Raise(<<>>)
  ELSE IF entries.text # <<>>
       THEN Ok(<<"\n">> \o Sp(8) \o opening \o entries.text
               \o <<"\n">> \o Sp(8) \o <<")">>)
       ELSE Ok(<<>>)

emit_timingenv_entries(delays) ==
  entries_block(<<"(TIMINGENV">>, timingenv_loop(delays, sorted(delays), 1))

(***************************************************************************)
(* emit_timingcheck_entries                                                *)
(***************************************************************************)
\* input_str after the COND wrapper of a conditional check
check_input_str(delay) ==
  IF delay.is_cond
  THEN <<"(COND", " ">> \o format_str(delay.cond_equation) \o <<" ">>
       \o input_str(delay) \o <<")">>
  ELSE input_str(delay)

\* output_str after the suppression for width checks
check_output_str(delay) ==
  IF startswith(delay.name, <<"w", "i", "d", "t", "h">>) THEN <<>>
  ELSE output_str(delay)

timingcheck_entry(delay) ==
  concat(Ok(<<"\n">> \o Sp(16) \o <<"(">> \o upper(delay.type) \o <<" ">>
            \o check_output_str(delay) \o <<" ">>
            \o check_input_str(delay) \o <<" ">>),
    IF startswith(delay.name, <<"s", "e", "t", "u", "p", "h", "o", "l", "d">>)
    THEN concat(gen_slot(delay, "setup"),
           concat(Ok(<<" ">>),
             concat(gen_slot(delay, "hold"), Ok(<<")">>))))
    ELSE concat(gen_slot(delay, "nominal"), Ok(<<")">>)))

RECURSIVE timingcheck_loop(_, _, _)
timingcheck_loop(delays, ks, i) ==
  IF i > Len(ks) THEN Ok(<<>>)
  ELSE concat(IF get(delays, ks[i]).is_timing_check
              THEN timingcheck_entry(get(delays, ks[i]))
              ELSE Ok(<<>>),
              timingcheck_loop(delays, ks, i + 1))

emit_timingcheck_entries(delays) ==
  entries_block(<<"(TIMINGCHECK">>,
                timingcheck_loop(delays, sorted(delays), 1))

(***************************************************************************)
(* emit_delay_entries                                                      *)
(***************************************************************************)
\* the loop that builds tim_val_str from the values of delay_paths
RECURSIVE tim_val_loop(_, _)
tim_val_loop(vals, i) ==
  IF i > Len(vals) THEN Ok(<<>>)
  ELSE concat(gen_timing_entry(vals[i]), tim_val_loop(vals, i + 1))

\* an opening of the COND wrapper that leaves the equation unclosed
cond_open_unclosed(delay) ==
  <<"\n">> \o Sp(16) \o <<"(COND", " ", "(">>
  \o format_str(delay.cond_equation)

\* the opening of the COND wrapper of a conditional IOPATH
cond_open(delay) ==
  <<"\n">> \o Sp(16) \o <<"(COND", " ", "(">>
  \o format_str(delay.cond_equation) \o <<")">>

\* the text of one entry of the loop, given its tim_val_str
delay_entry_text(delay, timval) ==
  IF startswith(delay.type, <<"p", "o", "r", "t">>)
  THEN <<"\n">> \o Sp(16) \o <<"(PORT", " ">> \o input_str(delay) \o <<" ">>
       \o timval \o <<")">>
  ELSE IF startswith(delay.type,
            <<"i", "n", "t", "e", "r", "c", "o", "n", "n", "e", "c", "t">>)
  THEN <<"\n">> \o Sp(16) \o <<"(INTERCONNECT", " ">> \o input_str(delay)
       \o <<" ">> \o output_str(delay) \o <<" ">> \o timval \o <<")">>
  ELSE IF startswith(delay.type, <<"d", "e", "v", "i", "c", "e">>)
  THEN <<"\n">> \o Sp(16) \o <<"(DEVICE", " ">> \o input_str(delay) \o <<" ">>
       \o timval \o <<")">>
  ELSE (IF delay.is_cond THEN cond_open(delay) ELSE <<>>)
       \o <<"\n">> \o Sp(16) \o (IF delay.is_cond THEN Sp(5) ELSE <<>>)
       \o <<"(IOPATH", " ">> \o input_str(delay) \o <<" ">>
       \o output_str(delay) \o <<" ">> \o timval \o <<")">>
       \o (IF delay.is_cond THEN <<"\n">> \o Sp(20) \o <<")">> ELSE <<>>)

\* the entry once tim_val_str is built; an exception of the build goes on
entry_of(delay, timval) ==
  IF ~timval.ok THEN Raise(<<>>)
  ELSE Ok(delay_entry_text(delay, timval.text))

delay_entry(delay) ==
  entry_of(delay, tim_val_loop(iterate(delay.delay_paths), 1))

\* one pass of the loop: the entry goes in front of entries_absolute or
\* entries_incremental of the passes after it
delay_pass(delay, entry, rest) ==
  IF ~delay.is_absolute /\ ~delay.is_incremental THEN rest
  ELSE IF ~entry.ok \/ ~rest.ok
       THEN [ok |-> FALSE, absolute |-> <<>>, incremental |-> <<>>]
       ELSE IF delay.is_absolute
            THEN [rest EXCEPT !.absolute = entry.text \o @]
            ELSE [rest EXCEPT !.incremental = entry.text \o @]

\* the loop over sorted(delays): entries_absolute and entries_incremental
RECURSIVE delay_loop(_, _, _)
delay_loop(delays, ks, i) ==
  IF i > Len(ks) THEN [ok |-> TRUE, absolute |-> <<>>, incremental |-> <<>>]
  ELSE delay_pass(get(delays, ks[i]), delay_entry(get(delays, ks[i])),
                  delay_loop(delays, ks, i + 1))

\* the DELAY block around entries_absolute and entries_incremental
delay_block(e) ==
  LET some == e.absolute # <<>> \/ e.incremental # <<>>
  IN IF ~e.ok THEN Raise(<<>>)
     ELSE Ok((IF some THEN <<"\n">> \o Sp(8) \o <<"(DELAY">> ELSE <<>>)
             \o (IF e.absolute # <<>>
                 THEN <<"\n">> \o Sp(12) \o <<"(ABSOLUTE">> \o e.absolute
                      \o <<"\n">> \o Sp(12) \o <<")">>
                 ELSE <<>>)
             \o (IF e.incremental # <<>>
                 THEN <<"\n">> \o Sp(12) \o <<"(INCREMENT">> \o e.incremental
                      \o <<"\n">> \o Sp(12) \o <<")">>
                 ELSE <<>>)
             \o (IF some THEN <<"\n">> \o Sp(8) \o <<")">> ELSE <<>>))

emit_delay_entries(delays) ==
  delay_block(delay_loop(delays, sorted(delays), 1))

(***************************************************************************)
(* emit_sdf                                                                *)
(***************************************************************************)
\* the header literal of emit_sdf with the timescale argument put in
emit_header(timescale) ==
  <<"(DELAYFILE", "\n">> \o Sp(4)
  \o <<"(", "S", "D", "F", "V", "E", "R", "S", "I", "O", "N", " ",
       "\"", "3", ".", "0", "\"", ")", "\n">> \o Sp(4)
  \o <<"(", "T", "I", "M", "E", "S", "C", "A", "L", "E", " ">>
  \o timescale \o <<")", "\n">>

\* the text of one (cell, location) pair
emit_cell(cell, location, delays, uppercase_celltype) ==
  concat(Ok(<<"\n">> \o Sp(4) \o <<"(CELL", "\n">> \o Sp(8)
            \o <<"(CELLTYPE", " ", "\"">>
            \o (IF uppercase_celltype THEN upper(cell) ELSE cell)
            \o <<"\"", ")">>
            \o <<"\n">> \o Sp(8) \o <<"(INSTANCE", " ">> \o location \o <<")">>),
    concat(emit_delay_entries(delays),
      concat(emit_timingcheck_entries(delays),
        concat(emit_timingenv_entries(delays),
               Ok(<<"\n">> \o Sp(4) \o <<")">>)))))

\* the loop over sorted(timings['cells'][cell])
RECURSIVE emit_locations(_, _, _, _, _)
emit_locations(cell, insts, ls, j, uppercase_celltype) ==
  IF j > Len(ls) THEN Ok(<<>>)
  ELSE concat(emit_cell(cell, ls[j], get(insts, ls[j]), uppercase_celltype),
              emit_locations(cell, insts, ls, j + 1, uppercase_celltype))

\* the loop over sorted(timings['cells'])
RECURSIVE emit_cells(_, _, _, _)
emit_cells(cells, cs, i, uppercase_celltype) ==
  IF i > Len(cs) THEN Ok(<<>>)
  ELSE concat(emit_locations(cs[i], get(cells, cs[i]),
                             sorted(get(cells, cs[i])), 1, uppercase_celltype),
              emit_cells(cells, cs, i + 1, uppercase_celltype))

\* a writer without the "None" fix
fix_none_absent(sdf) == sdf

\* sdf.replace("None", "")
fix_none(sdf) == replace(sdf, NoneText, <<>>)

\* the last statements of emit_sdf, on the text built so far
emit_return(sdf) ==
  IF ~sdf.ok THEN Raise(<<>>) ELSE Ok(fix_none(sdf.text))

emit_sdf(timings, timescale, uppercase_celltype) ==
  IF ~timings.has_header /\ ~timings.has_cells
  THEN Raise(<<>>)  \* the for loop never assigns sdf
  ELSE emit_return(
         concat(Ok(emit_header(timescale)),
           concat(IF timings.has_cells
                  THEN emit_cells(timings.cells, sorted(timings.cells), 1,
                                  uppercase_celltype)
                  ELSE Ok(<<>>),
                  Ok(<<"\n", ")">>))))

(***************************************************************************)
(* format_triplet, print_timing_record, print_sdf                          *)
(***************************************************************************)
format_triplet(entry) ==
  IF entry.py # "dict" THEN Raise(<<>>)
  ELSE IF entry.min = <<>> /\ entry.avg = <<>> /\ entry.max = <<>>
       THEN Ok(<<>>)
       ELSE Ok(format_num(entry.min) \o <<":">> \o format_num(entry.avg)
               \o <<":">> \o format_num(entry.max))

RecordTypes ==
  {<<"i", "n", "t", "e", "r", "c", "o", "n", "n", "e", "c", "t">>,
   <<"i", "o", "p", "a", "t", "h">>,
   <<"p", "o", "r", "t">>}

print_timing_record(rec, indent) ==
  IF \E s \in RecordTypes : Occurs(rec.type, s)
  THEN indent \o indent \o <<"(DELAY", "\n">>
       \o indent \o indent \o indent
       \o (IF rec.is_absolute THEN <<"(ABSOLUTE">> ELSE <<"(INCREMENTAL">>)
       \o <<"\n">>
       \o indent \o indent \o indent \o <<")", "\n">>
       \o indent \o indent \o <<")", "\n">>
  ELSE <<>>

\* re.match('^(\d+)(\D+)$', v): the number of leading digits, 0 for no match
RECURSIVE leading_digits(_, _)
leading_digits(v, i) ==
  IF i <= Len(v) /\ IsDigit(v[i]) THEN 1 + leading_digits(v, i + 1) ELSE 0

timescale_match(v) ==
  LET n == leading_digits(v, 1)
  IN IF n >= 1 /\ n < Len(v) /\ \A i \in (n + 1)..Len(v) : ~IsDigit(v[i])
     THEN n ELSE 0

key_voltage == <<"v", "o", "l", "t", "a", "g", "e">>
key_temperature == <<"t", "e", "m", "p", "e", "r", "a", "t", "u", "r", "e">>
key_divider == <<"d", "i", "v", "i", "d", "e", "r">>
key_timescale == <<"t", "i", "m", "e", "s", "c", "a", "l", "e">>

\* a writer that prints a free-text header value bare
quote_value_bare(v) == v

\* the quoting of a free-text header value
quote_value(v) == <<"\"">> \o v \o <<"\"">>

\* the value text of a header item after the if/elif chain
header_value(k, v) ==
  IF k = key_voltage \/ k = key_temperature THEN format_triplet(v)
  ELSE IF v.py # "str" THEN Raise(<<>>)
  ELSE IF k = key_divider THEN Ok(v.s)
  ELSE IF k = key_timescale
       THEN LET n == timescale_match(v.s)
            IN IF n = 0 THEN Raise(<<>>)  \* m is None
               ELSE Ok(SubSeq(v.s, 1, n) \o <<" ">>
                       \o SubSeq(v.s, n + 1, Len(v.s)))
  ELSE Ok(quote_value(v.s))

\* the loop over sdfdata['header'].items(), from the i-th item on
RECURSIVE print_header(_, _, _)
print_header(header, indent, i) ==
  IF i > Len(header) THEN Ok(<<>>)
  ELSE LET v == header_value(header[i][1], header[i][2])
       IN IF ~v.ok THEN Raise(<<>>)
          ELSE LET line == indent \o <<"(">> \o upper(header[i][1]) \o <<" ">>
                           \o v.text \o <<")", "\n">>
                   rest == print_header(header, indent, i + 1)
               IN [ok |-> rest.ok, text |-> line \o rest.text]

\* the loop over instdata.items()
RECURSIVE print_records(_, _, _)
print_records(instdata, indent, i) ==
  IF i > Len(instdata) THEN <<>>
  ELSE print_timing_record(instdata[i][2], indent)
       \o print_records(instdata, indent, i + 1)

\* the loop over celldata.items()
RECURSIVE print_insts(_, _, _, _)
print_insts(cell, celldata, indent, i) ==
  IF i > Len(celldata) THEN <<>>
  ELSE indent \o indent \o <<"(CELLTYPE", " ", "\"">> \o cell
       \o <<"\"", ")", "\n">>
       \o indent \o indent \o <<"(INSTANCE", " ">> \o celldata[i][1]
       \o <<")", "\n">>
       \o print_records(celldata[i][2], indent, 1)
       \o print_insts(cell, celldata, indent, i + 1)

\* the loop over sdfdata['cells'].items()
RECURSIVE print_cells(_, _, _)
print_cells(cells, indent, i) ==
  IF i > Len(cells) THEN <<>>
  ELSE indent \o <<"(CELL", "\n">>
       \o print_insts(cells[i][1], cells[i][2], indent, 1)
       \o indent \o <<")", "\n">>
       \o print_cells(cells, indent, i + 1)

print_sdf(data, indent) ==
  IF ~data.has_header THEN Raise(<<"(DELAYFILE", "\n">>)
  ELSE LET h == print_header(data.header, indent, 1)
       IN IF ~h.ok THEN Raise(<<"(DELAYFILE", "\n">> \o h.text)
          ELSE Ok(<<"(DELAYFILE", "\n">> \o h.text
                  \o (IF data.has_cells
                      THEN print_cells(data.cells, indent, 1) ELSE <<>>)
                  \o <<")">>)

(***************************************************************************)
(* The Documents of the model: the values a caller (the parser, or any     *)
(* program that fills the dicts) hands to the writers.                     *)
(***************************************************************************)
None == <<>>

Some(v) == <<v>>

key_sdfversion == <<"s", "d", "f", "v", "e", "r", "s", "i", "o", "n">>

\* the header items the model draws from: <<key, value>>
HeaderItems ==
  {<<key_sdfversion, PyStr(<<"3", ".", "0">>)>>,
   <<key_timescale, PyStr(<<"1", "0", "0", "p", "s">>)>>,
   <<key_timescale, PyStr(<<"1", ".", "0", "n", "s">>)>>,
   <<key_voltage, Triple(None, Some(2), Some(3))>>,
   <<key_voltage, Triple(Some(1), Some(2), Some(3))>>,
   <<key_divider, PyStr(<<"/">>)>>}

CellNames == {<<"B">>, <<"a">>}

InstNames == {<<"x">>, <<"y">>}

posedge == <<"p", "o", "s", "e", "d", "g", "e">>

\* an entry: name, type, from_pin and its edge, to_pin and its edge, the
\* equation of its condition, its family, its delay_paths
Entry(name, type, fp, fe, tp, te, eq, family, delay_paths) ==
  [name |-> name, type |-> type,
   from_pin |-> fp, from_pin_edge |-> fe,
   to_pin |-> tp, to_pin_edge |-> te,
   is_cond |-> eq # None, cond_equation |-> eq,
   is_absolute |-> family = "absolute",
   is_incremental |-> family = "incremental",
   is_timing_check |-> family = "check",
   is_timing_env |-> family = "env",
   delay_paths |-> delay_paths]

\* (COND en == 1'b1 (IOPATH a y (1::3))), delay_paths a list of triples
e_cond_iopath ==
  Entry(<<"i", "o", "p", "a", "t", "h", "_", "a", "_", "y">>, <<"i", "o", "p", "a", "t", "h">>,
        <<"a">>, None, <<"y">>, None,
        Some(<<"e", "n", " ", "=", "=", " ", "1", "'", "b", "1">>), "absolute",
        ListPaths(<<Triple(Some(1), None, Some(3))>>))

\* (IOPATH d y (1:2:3)), delay_paths a mapping from slot name to triple
e_iopath ==
  Entry(<<"i", "o", "p", "a", "t", "h", "_", "d", "_", "y">>, <<"i", "o", "p", "a", "t", "h">>,
        <<"d">>, None, <<"y">>, None, None, "absolute",
        DictPaths(<<Slot("nominal", Triple(Some(1), Some(2), Some(3)))>>))

\* (INTERCONNECT a y ()), incremental
e_interconnect ==
  Entry(<<"i", "n", "t", "e", "r", "c", "o", "n", "n", "e", "c", "t", "_", "a", "_", "y">>, <<"i", "n", "t", "e", "r", "c", "o", "n", "n", "e", "c", "t">>,
        <<"a">>, None, <<"y">>, None, None, "incremental",
        ListPaths(<<Triple(None, None, None)>>))

\* (WIDTH (posedge c) (:2:3))
e_width ==
  Entry(<<"w", "i", "d", "t", "h", "_", "c", "_", "c">>, <<"w", "i", "d", "t", "h">>,
        <<"c">>, Some(posedge), <<"c">>, Some(posedge), None, "check",
        DictPaths(<<Slot("nominal", Triple(None, Some(2), Some(3)))>>))

\* (SETUPHOLD d (COND e (posedge c)) (1:2:) (-1::10))
e_setuphold ==
  Entry(<<"s", "e", "t", "u", "p", "h", "o", "l", "d", "_", "c", "_", "d">>, <<"s", "e", "t", "u", "p", "h", "o", "l", "d">>,
        <<"c">>, Some(posedge), <<"d">>, None, Some(<<"e">>), "check",
        DictPaths(<<Slot("setup", Triple(Some(1), Some(2), None)),
                    Slot("hold", Triple(Some(0 - 1), None, Some(10)))>>))

\* (PATHCONSTRAINT y a () (1::))
e_pathconstraint ==
  Entry(<<"p", "a", "t", "h", "c", "o", "n", "s", "t", "r", "a", "i", "n", "t", "_", "a", "_", "y">>, <<"p", "a", "t", "h", "c", "o", "n", "s", "t", "r", "a", "i", "n", "t">>,
        <<"a">>, None, <<"y">>, None, None, "env",
        DictPaths(<<Slot("rise", Triple(None, None, None)),
                    Slot("fall", Triple(Some(1), None, None))>>))

\* (PERIOD (posedge c) (:2:3))
e_period ==
  Entry(<<"p", "e", "r", "i", "o", "d", "_", "c", "_", "c">>, <<"p", "e", "r", "i", "o", "d">>,
        <<"c">>, Some(posedge), <<"c">>, Some(posedge), None, "check",
        DictPaths(<<Slot("nominal", Triple(None, Some(2), Some(3)))>>))

\* (COND (None_n) (IOPATH None_n y (1::3))): a pin whose name holds the
\* text None, in an equation inside parentheses
e_cond_none ==
  Entry(<<"i", "o", "p", "a", "t", "h", "_", "N", "o", "n", "e", "_", "n", "_", "y">>, <<"i", "o", "p", "a", "t", "h">>,
        <<"N", "o", "n", "e", "_", "n">>, None, <<"y">>, None,
        Some(<<"(", "N", "o", "n", "e", "_", "n", ")">>), "absolute",
        ListPaths(<<Triple(Some(1), None, Some(3))>>))

Entries ==
  {e_cond_iopath, e_cond_none, e_iopath, e_interconnect, e_width, e_period,
   e_setuphold, e_pathconstraint}

\* the arguments the model draws from: the defaults and one other choice
EmitArgs ==
  {[timescale |-> <<"1", "p", "s">>, uppercase_celltype |-> FALSE],
   [timescale |-> <<"1", "0", "0", "p", "s">>, uppercase_celltype |-> TRUE]}

Indents == {Sp(2), Sp(1)}

(***************************************************************************)
(* The reader: sdflex, sdfyacc and sdfparse.  The input text is spelled    *)
(* character by character.  The lexer cuts it into tokens, each token the  *)
(* characters it was written with; a grammar rule reads the tokens.        *)
(***************************************************************************)
\* the characters of identifiers, paths, numbers and based constants
WordChars ==
  {"a", "b", "c", "d", "e", "f", "g", "h", "i", "j", "k", "l", "m",
   "n", "o", "p", "q", "r", "s", "t", "u", "v", "w", "x", "y", "z",
   "A", "B", "C", "D", "E", "F", "G", "H", "I", "J", "K", "L", "M",
   "N", "O", "P", "Q", "R", "S", "T", "U", "V", "W", "X", "Y", "Z",
   "0", "1", "2", "3", "4", "5", "6", "7", "8", "9",
   "_", "/", ".", "[", "]", "'", "-"}

\* the characters that are a token by themselves
PunctChars == {"(", ")", ":", "~", "^"}

\* the characters an operator of one or two characters starts with
OperatorChars == {"&", "|", "=", "!"}

\* white space
Blank == {" ", "\n"}

\* the first place from i on that holds a character outside S (Len + 1 if none)
NextOutside(text, i, S) ==
  LET J == {j \in i..Len(text) : text[j] \notin S}
  IN IF J = {} THEN Len(text) + 1 ELSE CHOOSE j \in J : \A k \in J : j <= k

\* the first place from i on that holds the character c (Len + 1 if none)
NextChar(text, i, c) ==
  LET J == {j \in i..Len(text) : text[j] = c}
  IN IF J = {} THEN Len(text) + 1 ELSE CHOOSE j \in J : \A k \in J : j <= k

\* the length of the token that starts at place i; 0 when no token does
token_len(text, i) ==
  IF text[i] \in PunctChars THEN 1
  ELSE IF text[i] \in {"&", "|"}
       THEN (IF i < Len(text) /\ text[i + 1] = text[i] THEN 2 ELSE 1)
  ELSE IF text[i] \in {"=", "!"}
       THEN (IF i < Len(text) /\ text[i + 1] = "=" THEN 2
             ELSE IF text[i] = "!" THEN 1 ELSE 0)
  ELSE IF text[i] = "\""
       THEN (IF NextChar(text, i + 1, "\"") <= Len(text)
             THEN NextChar(text, i + 1, "\"") - i + 1 ELSE 0)
  ELSE IF text[i] \in WordChars THEN NextOutside(text, i, WordChars) - i
  ELSE 0

\* the place is inside a quoted string, or holds its closing quote
in_string(text, i) ==
  Cardinality({j \in 1..(i - 1) : text[j] = "\""}) % 2 = 1

\* the number of places right before place i that all hold the character c
run_before(text, i, c) ==
  LET J == {j \in 1..(i - 1) : text[j] # c}
  IN IF J = {} THEN i - 1
     ELSE i - 1 - (CHOOSE j \in J : \A k \in J : k <= j)

\* the "=" at place i follows a run of "=" that follows a "!"
after_bang(text, i) ==
  /\ run_before(text, i, "=") < i - 1
  /\ text[i - 1 - run_before(text, i, "=")] = "!"

\* a token starts at place i: the place holds no white space and the token
\* that starts before it (the longest the lexer can read there) ends before it
is_start(text, i) ==
  IF in_string(text, i) \/ text[i] \in Blank THEN FALSE
  ELSE IF text[i] \in WordChars THEN i = 1 \/ text[i - 1] \notin WordChars
  ELSE IF text[i] \in {"&", "|"} THEN run_before(text, i, text[i]) % 2 = 0
  ELSE IF text[i] = "="
       THEN run_before(text, i, "=") % 2 = (IF after_bang(text, i) THEN 1 ELSE 0)
  ELSE TRUE

\* the tokens of the text in the order of the text; white space separates
\* tokens and is no token; the token <<>> stands for a character the lexer
\* rejects
lex(text) ==
  LET starts(i) == is_start(text, i)
      at == SelectSeq([i \in 1..Len(text) |-> i], starts)
  IN [n \in 1..Len(at) |->
        SubSeq(text, at[n], at[n] + token_len(text, at[n]) - 1)]

\* the lexer accepted the whole text
lex_ok(toks) == \A i \in 1..Len(toks) : toks[i] # <<>>

\* the nesting depth after the token at place j, counted from place i
depth(toks, i, j) ==
  Cardinality({k \in i..j : toks[k] = <<"(">>})
  - Cardinality({k \in i..j : toks[k] = <<")">>})

\* every closing parenthesis closes an open one and none stays open
balanced(toks) ==
  /\ \A j \in 1..Len(toks) : depth(toks, 1, j) >= 0
  /\ depth(toks, 1, Len(toks)) = 0

\* the place of the parenthesis that closes the one at place i
closing(toks, i) ==
  CHOOSE j \in i..Len(toks) :
    depth(toks, i, j) = 0 /\ \A k \in i..(j - 1) : depth(toks, i, k) > 0

\* the top-level items of the tokens lo..hi, each as the places <<first,
\* last>> it takes: one token, or a parenthesis with all it encloses
RECURSIVE items(_, _, _)
items(toks, lo, hi) ==
  IF lo > hi THEN <<>>
  ELSE IF toks[lo] = <<"(">>
       THEN <<<<lo, closing(toks, lo)>>>> \o items(toks, closing(toks, lo) + 1, hi)
       ELSE <<<<lo, lo>>>> \o items(toks, lo + 1, hi)

\* the outcome of a grammar rule: the value it builds, or a syntax error
Value(v) == [ok |-> TRUE, value |-> v]

SyntaxError == [ok |-> FALSE, value |-> <<>>]

\* RNUMBER: the inputs of the model are integer literals, signed or not
is_number(tok) ==
  /\ tok # <<>>
  /\ \A i \in 1..Len(tok) : IsDigit(tok[i]) \/ (i = 1 /\ tok[i] = "-")
  /\ IsDigit(tok[Len(tok)])

\* int() of a string of digits
RECURSIVE digits_value(_, _)
digits_value(tok, n) ==
  IF n = 0 THEN 0
  ELSE 10 * digits_value(tok, n - 1)
       + (CHOOSE d \in 0..9 : DigitChars[d + 1] = tok[n])

number_value(tok) ==
  IF tok[1] = "-" THEN 0 - digits_value(Tail(tok), Len(tok) - 1)
  ELSE digits_value(tok, Len(tok))

\* one slot of a triple: nothing written, or one number
slot_ok(part) == part = <<>> \/ (Len(part) = 1 /\ is_number(part[1]))

\* an empty slot read as the number 0
slot_value_zero(part) ==
  IF part = <<>> THEN Some(0) ELSE Some(number_value(part[1]))

slot_value(part) == IF part = <<>> THEN None ELSE Some(number_value(part[1]))

\* the triple read whatever is written between the parentheses
rtriple_lenient(inner, colons) ==
  IF Cardinality(colons) # 2 THEN Value(Triple(None, None, None))
  ELSE LET c1 == CHOOSE c \in colons : \A d \in colons : c <= d
           c2 == CHOOSE c \in colons : \A d \in colons : d <= c
           mn == SubSeq(inner, 1, c1 - 1)
           av == SubSeq(inner, c1 + 1, c2 - 1)
           mx == SubSeq(inner, c2 + 1, Len(inner))
       IN IF ~slot_ok(mn) \/ ~slot_ok(av) \/ ~slot_ok(mx) THEN SyntaxError
          ELSE Value(Triple(slot_value(mn), slot_value(av), slot_value(mx)))

\* the tokens between the parentheses of a triple written with its colons
rtriple(inner, colons) ==
  IF Cardinality(colons) # 2 THEN SyntaxError
  ELSE LET c1 == CHOOSE c \in colons : \A d \in colons : c <= d
           c2 == CHOOSE c \in colons : \A d \in colons : d <= c
           mn == SubSeq(inner, 1, c1 - 1)
           av == SubSeq(inner, c1 + 1, c2 - 1)
           mx == SubSeq(inner, c2 + 1, Len(inner))
       IN IF ~slot_ok(mn) \/ ~slot_ok(av) \/ ~slot_ok(mx) THEN SyntaxError
          ELSE IF mn = <<>> /\ av = <<>> /\ mx = <<>> THEN SyntaxError
          ELSE Value(Triple(slot_value(mn), slot_value(av), slot_value(mx)))

\* rule real_triple on a parenthesis and the tokens it encloses
triple_of(inner) ==
  IF inner = <<>> THEN Value(Triple(None, None, None))
  ELSE IF Len(inner) = 1 /\ is_number(inner[1])
       THEN Value(Triple(Some(number_value(inner[1])),
                         Some(number_value(inner[1])),
                         Some(number_value(inner[1]))))
  ELSE rtriple(inner, {c \in 1..Len(inner) : inner[c] = <<":">>})

\* the item at places lo..hi is a parenthesis
is_group(toks, lo, hi) ==
  lo < hi /\ toks[lo] = <<"(">> /\ toks[hi] = <<")">>

p_real_triple(toks, lo, hi) ==
  IF ~is_group(toks, lo, hi) THEN SyntaxError
  ELSE triple_of(SubSeq(toks, lo + 1, hi - 1))

(***************************************************************************)
(* Conditional expressions (rule delay_condition).                         *)
(***************************************************************************)
UnaryOps == {<<"~">>, <<"!">>}

BinaryOps ==
  {<<"&">>, <<"&", "&">>, <<"|">>, <<"|", "|">>, <<"^">>, <<"=", "=">>,
   <<"!", "=">>}

\* an identifier, a path or a constant
is_word(tok) == tok # <<>> /\ \A i \in 1..Len(tok) : tok[i] \in WordChars

\* after this token an operand must follow
wants_operand(tok) == tok \in UnaryOps \/ tok \in BinaryOps \/ tok = <<"(">>

\* this token starts an operand
starts_operand(tok) == tok \in UnaryOps \/ tok = <<"(">> \/ is_word(tok)

\* the tokens lo..hi are an expression: operands and operators alternate and
\* the parentheses are balanced
is_expression(toks, lo, hi) ==
  /\ lo <= hi
  /\ starts_operand(toks[lo])
  /\ ~wants_operand(toks[hi])
  /\ \A k \in lo..hi :
       \/ toks[k] \in UnaryOps \/ toks[k] \in BinaryOps
       \/ toks[k] \in {<<"(">>, <<")">>} \/ is_word(toks[k])
  /\ \A k \in lo..(hi - 1) :
       IF wants_operand(toks[k]) THEN starts_operand(toks[k + 1])
       ELSE toks[k + 1] \in BinaryOps \/ toks[k + 1] = <<")">>
  /\ \A k \in lo..hi : depth(toks, lo, k) >= 0
  /\ depth(toks, lo, hi) = 0

\* rule delay_condition: the list of the tokens of the expression
p_delay_condition(toks, lo, hi) ==
  IF is_expression(toks, lo, hi) THEN Value(SubSeq(toks, lo, hi))
  ELSE SyntaxError

\* ''.join(tokens)
RECURSIVE join_tight(_, _)
join_tight(toks, i) ==
  IF i > Len(toks) THEN <<>> ELSE toks[i] \o join_tight(toks, i + 1)

\* ' '.join(tokens)
RECURSIVE join(_, _)
join(toks, i) ==
  IF i > Len(toks) THEN <<>>
  ELSE toks[i] \o (IF i < Len(toks) THEN <<" ">> ELSE <<>>) \o join(toks, i + 1)

(***************************************************************************)
(* Keywords, port specs and entries.                                       *)
(***************************************************************************)
kw_COND == <<"C", "O", "N", "D">>

kw_IOPATH == <<"I", "O", "P", "A", "T", "H">>

kw_INTERCONNECT == <<"I", "N", "T", "E", "R", "C", "O", "N", "N", "E", "C", "T">>

kw_WIDTH == <<"W", "I", "D", "T", "H">>

kw_PERIOD == <<"P", "E", "R", "I", "O", "D">>

kw_NOCHANGE == <<"N", "O", "C", "H", "A", "N", "G", "E">>

kw_SETUPHOLD == <<"S", "E", "T", "U", "P", "H", "O", "L", "D">>

kw_DELAY == <<"D", "E", "L", "A", "Y">>

kw_ABSOLUTE == <<"A", "B", "S", "O", "L", "U", "T", "E">>

kw_INCREMENT == <<"I", "N", "C", "R", "E", "M", "E", "N", "T">>

kw_TIMINGCHECK == <<"T", "I", "M", "I", "N", "G", "C", "H", "E", "C", "K">>

kw_CELL == <<"C", "E", "L", "L">>

kw_CELLTYPE == <<"C", "E", "L", "L", "T", "Y", "P", "E">>

kw_INSTANCE == <<"I", "N", "S", "T", "A", "N", "C", "E">>

kw_DELAYFILE == <<"D", "E", "L", "A", "Y", "F", "I", "L", "E">>

kw_SDFVERSION == <<"S", "D", "F", "V", "E", "R", "S", "I", "O", "N">>

kw_TIMESCALE == <<"T", "I", "M", "E", "S", "C", "A", "L", "E">>

negedge == <<"n", "e", "g", "e", "d", "g", "e">>

Keywords ==
  {kw_COND, kw_IOPATH, kw_INTERCONNECT, kw_WIDTH, kw_PERIOD, kw_NOCHANGE, kw_SETUPHOLD, kw_DELAY, kw_ABSOLUTE, kw_INCREMENT, kw_TIMINGCHECK, kw_CELL, kw_CELLTYPE, kw_INSTANCE, kw_DELAYFILE, kw_SDFVERSION, kw_TIMESCALE}

\* keywords are recognized in upper and in lower case
is_keyword(tok, kw) == upper(tok) = kw

\* a path: a word that is no keyword and no number
is_path(tok) ==
  is_word(tok) /\ upper(tok) \notin Keywords /\ tok \notin {posedge, negedge}

\* a port: its pin, its edge and the equation of its condition
Port(pin, edge, cond) == [pin |-> pin, edge |-> edge, cond |-> cond]

\* a port spec without condition: a bare path, or (posedge|negedge path)
plain_port(toks, lo, hi) ==
  IF lo = hi
  THEN (IF is_path(toks[lo]) THEN Value(Port(toks[lo], None, None))
        ELSE SyntaxError)
  ELSE IF /\ is_group(toks, lo, hi) /\ hi = lo + 3
          /\ toks[lo + 1] \in {posedge, negedge} /\ is_path(toks[lo + 2])
       THEN Value(Port(toks[lo + 2], Some(toks[lo + 1]), None))
       ELSE SyntaxError

\* the port of a condition, given the port spec the condition wraps: the
\* equation is the tokens of the expression joined by one space
with_cond(expr, port) ==
  IF ~expr.ok \/ ~port.ok THEN SyntaxError
  ELSE Value(Port(port.value.pin, port.value.edge, Some(join(expr.value, 1))))

\* (COND expr port): the last item is the port, the expression is before it
cond_port(toks, lo, hi, last) ==
  with_cond(p_delay_condition(toks, lo + 2, last[1] - 1),
            plain_port(toks, last[1], last[2]))

\* the last item of the parenthesis at lo..hi
last_item(toks, lo, hi) ==
  IF toks[hi - 1] = <<")">>
  THEN <<CHOOSE j \in (lo + 1)..(hi - 1) :
            toks[j] = <<"(">> /\ closing(toks, j) = hi - 1, hi - 1>>
  ELSE <<hi - 1, hi - 1>>

\* a port spec: plain, or wrapped in COND
port_spec(toks, lo, hi) ==
  IF is_group(toks, lo, hi) /\ hi > lo + 3 /\ is_keyword(toks[lo + 1], kw_COND)
  THEN cond_port(toks, lo, hi, last_item(toks, lo, hi))
  ELSE plain_port(toks, lo, hi)

\* a list with one more element in front, or the error of either
cons(a, b) ==
  IF ~a.ok \/ ~b.ok THEN SyntaxError ELSE Value(<<a.value>> \o b.value)

\* two lists one after the other, or the error of either
append(a, b) ==
  IF ~a.ok \/ ~b.ok THEN SyntaxError ELSE Value(a.value \o b.value)

\* the triples written at the items k, k + 1, ... of its
RECURSIVE triple_list(_, _, _)
triple_list(toks, its, k) ==
  IF k > Len(its) THEN Value(<<>>)
  ELSE cons(p_real_triple(toks, its[k][1], its[k][2]),
            triple_list(toks, its, k + 1))

\* the Document Builder names the positional triples: nominal for one,
\* the two given names for more
named_paths(ts, first, second) ==
  IF Len(ts) = 1 THEN DictPaths(<<Slot("nominal", ts[1])>>)
  ELSE DictPaths(<<Slot(first, ts[1]), Slot(second, ts[2])>>)

\* the name of an entry: <kind>_<from_pin>_<to_pin>
entry_name(type, from_pin, to_pin) ==
  type \o <<"_">> \o from_pin \o <<"_">> \o to_pin

\* the equation of an entry: that of the COND around the construct, or that
\* of the COND around one of its port specs
entry_cond(outer, from, to) ==
  IF outer # None THEN outer
  ELSE IF to.cond # None THEN to.cond ELSE from.cond

\* the entry of a construct from the ports, the condition and the triples read
make_entry(type, from, to, outer, family, ts, first, second) ==
  IF ~from.ok \/ ~to.ok \/ ~ts.ok THEN SyntaxError
  ELSE IF ts.value = <<>> THEN SyntaxError
  ELSE Value(Entry(entry_name(type, from.value.pin, to.value.pin), type,
                   from.value.pin, from.value.edge,
                   to.value.pin, to.value.edge,
                   entry_cond(outer, from.value, to.value), family,
                   named_paths(ts.value, first, second)))

(***************************************************************************)
(* Delay constructs.                                                       *)
(***************************************************************************)
\* (IOPATH port_spec port triples) and (INTERCONNECT port port triples), the
\* items of the parenthesis given
path_delay(toks, its, type, outer, family) ==
  IF Len(its) < 4 THEN SyntaxError
  ELSE make_entry(type, port_spec(toks, its[2][1], its[2][2]),
                  plain_port(toks, its[3][1], its[3][2]), outer, family,
                  triple_list(toks, its, 4), "rise", "fall")

p_iopath(toks, lo, hi, outer, family) ==
  IF is_group(toks, lo, hi) /\ is_keyword(toks[lo + 1], kw_IOPATH)
  THEN path_delay(toks, items(toks, lo + 1, hi - 1), <<"i", "o", "p", "a", "t", "h">>, outer, family)
  ELSE SyntaxError

p_interconnect(toks, lo, hi, family) ==
  IF is_group(toks, lo, hi) /\ is_keyword(toks[lo + 1], kw_INTERCONNECT)
  THEN path_delay(toks, items(toks, lo + 1, hi - 1), <<"i", "n", "t", "e", "r", "c", "o", "n", "n", "e", "c", "t">>, None,
                  family)
  ELSE SyntaxError

\* the IOPATH of a COND, given the expression read before it
cond_iopath(toks, last, expr, family) ==
  IF ~expr.ok THEN SyntaxError
  ELSE p_iopath(toks, last[1], last[2], Some(join(expr.value, 1)), family)

\* (COND expr (IOPATH ...))
p_cond_delay(toks, lo, hi, family) ==
  IF is_group(toks, lo, hi) /\ hi > lo + 3 /\ is_keyword(toks[lo + 1], kw_COND)
  THEN cond_iopath(toks, last_item(toks, lo, hi),
                   p_delay_condition(toks, lo + 2,
                                     last_item(toks, lo, hi)[1] - 1),
                   family)
  ELSE SyntaxError

\* one delay construct
p_del(toks, lo, hi, family) ==
  IF ~is_group(toks, lo, hi) THEN SyntaxError
  ELSE IF is_keyword(toks[lo + 1], kw_COND)
       THEN p_cond_delay(toks, lo, hi, family)
  ELSE IF is_keyword(toks[lo + 1], kw_IOPATH)
       THEN p_iopath(toks, lo, hi, None, family)
  ELSE p_interconnect(toks, lo, hi, family)

\* the delay constructs at the items k, k + 1, ... of its
RECURSIVE p_delay_list(_, _, _, _)
p_delay_list(toks, its, k, family) ==
  IF k > Len(its) THEN Value(<<>>)
  ELSE cons(p_del(toks, its[k][1], its[k][2], family),
            p_delay_list(toks, its, k + 1, family))

\* (ABSOLUTE del*) or (INCREMENT del*)
p_delay_type(toks, lo, hi) ==
  IF ~is_group(toks, lo, hi) THEN SyntaxError
  ELSE IF is_keyword(toks[lo + 1], kw_ABSOLUTE)
       THEN p_delay_list(toks, items(toks, lo + 2, hi - 1), 1, "absolute")
  ELSE IF is_keyword(toks[lo + 1], kw_INCREMENT)
       THEN p_delay_list(toks, items(toks, lo + 2, hi - 1), 1, "incremental")
  ELSE SyntaxError

RECURSIVE p_delay_types(_, _, _)
p_delay_types(toks, its, k) ==
  IF k > Len(its) THEN Value(<<>>)
  ELSE append(p_delay_type(toks, its[k][1], its[k][2]),
              p_delay_types(toks, its, k + 1))

\* (DELAY (ABSOLUTE ...) (INCREMENT ...) ...): the list of its entries
p_delay(toks, lo, hi) ==
  IF is_group(toks, lo, hi) /\ is_keyword(toks[lo + 1], kw_DELAY)
  THEN p_delay_types(toks, items(toks, lo + 2, hi - 1), 1)
  ELSE SyntaxError

(***************************************************************************)
(* Timing checks.                                                          *)
(***************************************************************************)
\* a check with one port spec, used for from_pin and to_pin alike
one_port_check(toks, its, type) ==
  IF Len(its) # 3 THEN SyntaxError
  ELSE make_entry(type, port_spec(toks, its[2][1], its[2][2]),
                  port_spec(toks, its[2][1], its[2][2]), None, "check",
                  triple_list(toks, its, 3), "rise", "fall")

\* a check with two port specs read in the order written: the first is
\* from_pin, the second to_pin
two_port_check_in_order(toks, its, type, first, second) ==
  IF Len(its) # 5 THEN SyntaxError
  ELSE make_entry(type, port_spec(toks, its[2][1], its[2][2]),
                  port_spec(toks, its[3][1], its[3][2]), None, "check",
                  triple_list(toks, its, 4), first, second)

\* a check with two port specs: the first is to_pin, the second from_pin
two_port_check(toks, its, type, first, second) ==
  IF Len(its) # 5 THEN SyntaxError
  ELSE make_entry(type, port_spec(toks, its[3][1], its[3][2]),
                  port_spec(toks, its[2][1], its[2][2]), None, "check",
                  triple_list(toks, its, 4), first, second)

p_width_check(toks, lo, hi) ==
  IF is_group(toks, lo, hi) /\ is_keyword(toks[lo + 1], kw_WIDTH)
  THEN one_port_check(toks, items(toks, lo + 1, hi - 1), <<"w", "i", "d", "t", "h">>)
  ELSE SyntaxError

p_period_check(toks, lo, hi) ==
  IF is_group(toks, lo, hi) /\ is_keyword(toks[lo + 1], kw_PERIOD)
  THEN one_port_check(toks, items(toks, lo + 1, hi - 1), <<"p", "e", "r", "i", "o", "d">>)
  ELSE SyntaxError

p_nochange_check(toks, lo, hi) ==
  IF is_group(toks, lo, hi) /\ is_keyword(toks[lo + 1], kw_NOCHANGE)
  THEN two_port_check(toks, items(toks, lo + 1, hi - 1), <<"n", "o", "c", "h", "a", "n", "g", "e">>,
                      "rise", "fall")
  ELSE SyntaxError

p_setuphold_check(toks, lo, hi) ==
  IF is_group(toks, lo, hi) /\ is_keyword(toks[lo + 1], kw_SETUPHOLD)
  THEN two_port_check(toks, items(toks, lo + 1, hi - 1), <<"s", "e", "t", "u", "p", "h", "o", "l", "d">>,
                      "setup", "hold")
  ELSE SyntaxError

\* one check
p_tcheck(toks, lo, hi) ==
  IF ~is_group(toks, lo, hi) THEN SyntaxError
  ELSE IF is_keyword(toks[lo + 1], kw_WIDTH) THEN p_width_check(toks, lo, hi)
  ELSE IF is_keyword(toks[lo + 1], kw_PERIOD) THEN p_period_check(toks, lo, hi)
  ELSE IF is_keyword(toks[lo + 1], kw_NOCHANGE)
       THEN p_nochange_check(toks, lo, hi)
  ELSE p_setuphold_check(toks, lo, hi)

RECURSIVE p_tcheck_list(_, _, _)
p_tcheck_list(toks, its, k) ==
  IF k > Len(its) THEN Value(<<>>)
  ELSE cons(p_tcheck(toks, its[k][1], its[k][2]),
            p_tcheck_list(toks, its, k + 1))

\* (TIMINGCHECK check*): the list of its entries
p_timing_check(toks, lo, hi) ==
  IF is_group(toks, lo, hi) /\ is_keyword(toks[lo + 1], kw_TIMINGCHECK)
  THEN p_tcheck_list(toks, items(toks, lo + 2, hi - 1), 1)
  ELSE SyntaxError

\* a rule that returns the list of its one entry
listed(r) == IF r.ok THEN Value(<<r.value>>) ELSE SyntaxError

(***************************************************************************)
(* Cells, the file, and the Document Builder.                              *)
(***************************************************************************)
\* the name of the entry as the key, taken or not
unique_key_plain(d, name) == name

\* the key of an entry in the mapping d of its instance: its name, or, when
\* the name is taken, the name with the least free number from 2 on
unique_key(d, name) ==
  IF ~has_key(d, name) THEN name
  ELSE name \o <<"_">>
       \o int_str(CHOOSE n \in 2..(Len(d) + 2) :
                    /\ ~has_key(d, name \o <<"_">> \o int_str(n))
                    /\ \A m \in 2..(n - 1) :
                         has_key(d, name \o <<"_">> \o int_str(m)))

\* the entry under its key
add_entry(d, e, key) == set_item(d, key, [e EXCEPT !.name = key])

\* the entries k, k + 1, ... of es added to the mapping d of an instance
RECURSIVE add_entries(_, _, _)
add_entries(d, es, k) ==
  IF k > Len(es) THEN d
  ELSE add_entries(add_entry(d, es[k], unique_key(d, es[k].name)), es, k + 1)

\* d[k] when d has the key, else a new empty mapping
get_or_empty(d, k) == IF has_key(d, k) THEN get(d, k) ELSE <<>>

\* the entries of one CELL added to the cells of the Document
add_cell(cells, celltype, instance, es) ==
  set_item(cells, celltype,
    set_item(get_or_empty(cells, celltype), instance,
      add_entries(get_or_empty(get_or_empty(cells, celltype), instance),
                  es, 1)))

\* a quoted string
is_qstring(tok) ==
  Len(tok) >= 2 /\ tok[1] = "\"" /\ tok[Len(tok)] = "\""

unquoted(tok) == SubSeq(tok, 2, Len(tok) - 1)

\* (DELAY ...) or (TIMINGCHECK ...)
p_cell_block(toks, lo, hi) ==
  IF is_group(toks, lo, hi) /\ is_keyword(toks[lo + 1], kw_DELAY)
  THEN p_delay(toks, lo, hi)
  ELSE p_timing_check(toks, lo, hi)

RECURSIVE p_cell_blocks(_, _, _)
p_cell_blocks(toks, its, k) ==
  IF k > Len(its) THEN Value(<<>>)
  ELSE append(p_cell_block(toks, its[k][1], its[k][2]),
              p_cell_blocks(toks, its, k + 1))

\* the cell read: its type, its instance, the list of its entries
cell_of(celltype, instance, es) ==
  IF ~es.ok THEN SyntaxError
  ELSE Value([celltype |-> celltype, instance |-> instance,
              entries |-> es.value])

\* (CELL (CELLTYPE "type") (INSTANCE path) block*), its items given
cell_items(toks, its) ==
  IF /\ Len(its) >= 3
     /\ its[2][2] = its[2][1] + 3
     /\ is_keyword(toks[its[2][1] + 1], kw_CELLTYPE)
     /\ is_qstring(toks[its[2][1] + 2])
     /\ its[3][2] = its[3][1] + 3
     /\ is_keyword(toks[its[3][1] + 1], kw_INSTANCE)
     /\ is_path(toks[its[3][1] + 2])
  THEN cell_of(unquoted(toks[its[2][1] + 2]), toks[its[3][1] + 2],
               p_cell_blocks(toks, its, 4))
  ELSE SyntaxError

p_cell(toks, lo, hi) ==
  IF is_group(toks, lo, hi) /\ is_keyword(toks[lo + 1], kw_CELL)
  THEN cell_items(toks, items(toks, lo + 1, hi - 1))
  ELSE SyntaxError

\* the cells at the items k, k + 1, ... added to the cells read before
RECURSIVE p_cells(_, _, _, _)
add_read_cell(toks, its, k, cells, c) ==
  IF ~c.ok THEN SyntaxError
  ELSE p_cells(toks, its, k + 1,
               add_cell(cells, c.value.celltype, c.value.instance,
                        c.value.entries))

p_cells(toks, its, k, cells) ==
  IF k > Len(its) THEN Value(cells)
  ELSE add_read_cell(toks, its, k, cells,
                     p_cell(toks, its[k][1], its[k][2]))

\* a header item: (SDFVERSION "3.0"), (TIMESCALE 100 ps), (TIMESCALE 100ps)
is_header_item(toks, lo, hi) ==
  /\ is_group(toks, lo, hi)
  /\ \/ /\ is_keyword(toks[lo + 1], kw_SDFVERSION)
        /\ hi = lo + 3 /\ is_qstring(toks[lo + 2])
     \/ /\ is_keyword(toks[lo + 1], kw_TIMESCALE)
        /\ hi \in {lo + 3, lo + 4}
        /\ \A j \in (lo + 2)..(hi - 1) : is_word(toks[j])

header_item(toks, lo, hi) ==
  IF is_keyword(toks[lo + 1], kw_SDFVERSION)
  THEN <<key_sdfversion, PyStr(unquoted(toks[lo + 2]))>>
  ELSE <<key_timescale,
         PyStr(IF hi = lo + 3 THEN toks[lo + 2]
               ELSE toks[lo + 2] \o toks[lo + 3])>>

\* the header items at the items k..n of the file added to the header
RECURSIVE p_header(_, _, _, _, _)
p_header(toks, its, k, n, header) ==
  IF k > n THEN header
  ELSE p_header(toks, its, k + 1, n,
                set_item(header, header_item(toks, its[k][1], its[k][2])[1],
                         header_item(toks, its[k][1], its[k][2])[2]))

\* the Document of a file, given its cells
document_of(header, cells) ==
  IF ~cells.ok THEN SyntaxError
  ELSE Value([has_header |-> TRUE, header |-> header,
              has_cells |-> TRUE, cells |-> cells.value])

\* the place of the last header item among the items of the file: the header
\* items are the items in front of the cells
last_header(toks, its) ==
  1 + Cardinality({k \in 2..Len(its) :
                     \A j \in 2..k : is_header_item(toks, its[j][1], its[j][2])})

file_items(toks, its) ==
  document_of(p_header(toks, its, 2, last_header(toks, its), <<>>),
              p_cells(toks, its, last_header(toks, its) + 1, <<>>))

\* (DELAYFILE header-item* cell*)
p_sdf_file(toks, lo, hi) ==
  IF is_group(toks, lo, hi) /\ is_keyword(toks[lo + 1], kw_DELAYFILE)
  THEN file_items(toks, items(toks, lo + 1, hi - 1))
  ELSE SyntaxError

\* the cells mapping of a rule that reads one cell
one_cell(c) ==
  IF ~c.ok THEN SyntaxError
  ELSE Value(add_cell(<<>>, c.value.celltype, c.value.instance,
                      c.value.entries))

(***************************************************************************)
(* The parser object (sdfyacc.parser) and its start symbol.                *)
(***************************************************************************)
\* the start symbol of the grammar: the first rule
DefaultStart == "sdf_file"

\* the rules that read exactly one parenthesis
OneItemRules ==
  {"real_triple", "interconnect", "cond_delay", "width_check", "period_check",
   "nochange_check", "timing_check", "delay", "cell", "sdf_file"}

StartSymbols == OneItemRules \cup {"delay_condition", "delay_list"}

\* the rule named by the start symbol on all the tokens
start_rule(startsym, toks, n) ==
  CASE startsym = "real_triple" -> p_real_triple(toks, 1, n)
    [] startsym = "delay_condition" -> p_delay_condition(toks, 1, n)
    [] startsym = "interconnect" -> p_interconnect(toks, 1, n, "none")
    [] startsym = "cond_delay" -> listed(p_cond_delay(toks, 1, n, "none"))
    [] startsym = "delay_list" -> p_delay_list(toks, items(toks, 1, n), 1, "none")
    [] startsym = "width_check" -> listed(p_width_check(toks, 1, n))
    [] startsym = "period_check" -> listed(p_period_check(toks, 1, n))
    [] startsym = "nochange_check" -> listed(p_nochange_check(toks, 1, n))
    [] startsym = "timing_check" -> p_timing_check(toks, 1, n)
    [] startsym = "delay" -> p_delay(toks, 1, n)
    [] startsym = "cell" -> one_cell(p_cell(toks, 1, n))
    [] startsym = "sdf_file" -> p_sdf_file(toks, 1, n)

\* parser.parse on the tokens of the lexer
parse_tokens(startsym, toks) ==
  IF toks = <<>> \/ ~lex_ok(toks) \/ ~balanced(toks) THEN SyntaxError
  ELSE IF startsym \in OneItemRules /\ closing(toks, 1) # Len(toks)
       THEN SyntaxError
  ELSE start_rule(startsym, toks, Len(toks))

\* sdfyacc.parser.parse(text) of a parser built with the start symbol
yacc_parse(startsym, text) == parse_tokens(startsym, lex(text))

\* the instances and the entries of a Document, with their places
InstPlaces(data) ==
  {<<i, j>> \in (1..Len(data.cells)) \X (1..MaxSize) :
     j <= Len(data.cells[i][2])}

EntryPlaces(data) ==
  {<<i, j, k>> \in (1..Len(data.cells)) \X (1..MaxSize) \X (1..MaxSize) :
     /\ j <= Len(data.cells[i][2])
     /\ k <= Len(data.cells[i][2][j][2])}

Size(data) ==
  Len(data.header) + Len(data.cells) + Cardinality(InstPlaces(data))
  + Cardinality(EntryPlaces(data))

NoArgs == [timescale |-> <<>>, uppercase_celltype |-> FALSE, indent |-> <<>>]

NoResult == Raise(<<>>)

\* the paths of the machine: a directory and the name of a file in it
Paths == {"in", "out"} \X {"a", "b"}

\* a machine without files
NoDisk == [p \in Paths |-> None]

Init ==
  /\ sdfdata \in [has_header : BOOLEAN, header : {<<>>},
                  has_cells : BOOLEAN, cells : {<<>>}]
  /\ pc = "build"
  /\ writer = "none"
  /\ args = NoArgs
  /\ result = NoResult
  /\ input_data = <<>>
  /\ parser = DefaultStart
  /\ disk = NoDisk
  /\ opened = {}

\* sdfdata['header'][k] = v
SetHeader(k, v) ==
  /\ pc = "build"
  /\ sdfdata.has_header
  /\ ~has_key(sdfdata.header, k)
  /\ Size(sdfdata) < MaxSize
  /\ sdfdata' = [sdfdata EXCEPT !.header = set_item(@, k, v)]
  /\ UNCHANGED <<pc, writer, args, result, globals, filesystem>>

\* sdfdata['cells'][cell] = {}
AddCell(cell) ==
  /\ pc = "build"
  /\ sdfdata.has_cells
  /\ ~has_key(sdfdata.cells, cell)
  /\ Size(sdfdata) < MaxSize
  /\ sdfdata' = [sdfdata EXCEPT !.cells = set_item(@, cell, <<>>)]
  /\ UNCHANGED <<pc, writer, args, result, globals, filesystem>>

\* sdfdata['cells'][cell][inst] = {}
AddInstance(cell, inst) ==
  /\ pc = "build"
  /\ has_key(sdfdata.cells, cell)
  /\ ~has_key(get(sdfdata.cells, cell), inst)
  /\ Size(sdfdata) < MaxSize
  /\ sdfdata' = [sdfdata EXCEPT !.cells =
                   set_item(@, cell, set_item(get(@, cell), inst, <<>>))]
  /\ UNCHANGED <<pc, writer, args, result, globals, filesystem>>

\* sdfdata['cells'][cell][inst][entry['name']] = entry
AddEntry(cell, inst, entry) ==
  /\ pc = "build"
  /\ has_key(sdfdata.cells, cell)
  /\ has_key(get(sdfdata.cells, cell), inst)
  /\ ~has_key(get(get(sdfdata.cells, cell), inst), entry.name)
  /\ Size(sdfdata) < MaxSize
  /\ sdfdata' = [sdfdata EXCEPT !.cells =
                   set_item(@, cell,
                     set_item(get(@, cell), inst,
                       set_item(get(get(@, cell), inst), entry.name, entry)))]
  /\ UNCHANGED <<pc, writer, args, result, globals, filesystem>>

\* a call of emit_sdf(sdfdata, timescale, uppercase_celltype)
EmitSdf(timescale, uppercase_celltype) ==
  /\ pc = "build"
  /\ pc' = "done"
  /\ writer' = "emit_sdf"
  /\ args' = [NoArgs EXCEPT !.timescale = timescale,
                            !.uppercase_celltype = uppercase_celltype]
  /\ result' = emit_sdf(sdfdata, timescale, uppercase_celltype)
  /\ UNCHANGED <<sdfdata, globals, filesystem>>

\* a call of a print_sdf that takes the cells out of the Document it prints
PrintSdf_draining(indent) ==
  /\ pc = "build"
  /\ pc' = "done"
  /\ writer' = "print_sdf"
  /\ args' = [NoArgs EXCEPT !.indent = indent]
  /\ result' = print_sdf(sdfdata, indent)
  /\ sdfdata' = [sdfdata EXCEPT !.cells = <<>>]
  /\ UNCHANGED <<globals, filesystem>>

\* a call of print_sdf(sdfdata, indent)
PrintSdf(indent) ==
  /\ pc = "build"
  /\ pc' = "done"
  /\ writer' = "print_sdf"
  /\ args' = [NoArgs EXCEPT !.indent = indent]
  /\ result' = print_sdf(sdfdata, indent)
  /\ UNCHANGED <<sdfdata, globals, filesystem>>

Next ==
  \/ \E item \in HeaderItems : SetHeader(item[1], item[2])
  \/ \E cell \in CellNames : AddCell(cell)
  \/ \E cell \in CellNames, inst \in InstNames : AddInstance(cell, inst)
  \/ \E cell \in CellNames, inst \in InstNames, entry \in Entries :
       AddEntry(cell, inst, entry)
  \/ \E a \in EmitArgs : EmitSdf(a.timescale, a.uppercase_celltype)
  \/ \E indent \in Indents : PrintSdf(indent)

Spec == Init /\ [][Next]_vars

(***************************************************************************)
(* The texts the reader is given.  They are those of                        *)
(* tests/test_syntax_elements.py, written with their parts drawn from      *)
(* small sets.                                                             *)
(***************************************************************************)
\* the ways white space is written between two tokens of an expression
GapStyles == {"none", "space", "spaces", "newline", "mixed"}

\* the white space after the k-th token
gap(style, k) ==
  CASE style = "none" -> <<>>
    [] style = "space" -> <<" ">>
    [] style = "spaces" -> <<" ", " ">>
    [] style = "newline" -> <<"\n", " ">>
    [] style = "mixed" -> IF k % 2 = 1 THEN <<>> ELSE <<" ", " ">>

\* the tokens from the k-th on, written with the white space of the style
RECURSIVE Spaced(_, _, _)
Spaced(toks, style, k) ==
  IF k > Len(toks) THEN <<>>
  ELSE toks[k] \o (IF k < Len(toks) THEN gap(style, k) ELSE <<>>)
       \o Spaced(toks, style, k + 1)

\* the conditional expressions, each as the sequence of its tokens
Expressions ==
  {<<<<"b">>>>,
   <<<<"1", "'", "b", "0">>>>,
   <<<<"~">>, <<"a", "/", "b", "/", "c">>>>,
   <<<<"A">>, <<"!", "=">>, <<"C">>>>,
   <<<<"x">>, <<"&">>, <<"~">>, <<"y">>>>,
   <<<<"b">>, <<"&">>, <<"a">>>>,
   <<<<"a">>, <<"|">>, <<"b">>>>,
   <<<<"a", "/", "b">>, <<"=", "=">>, <<"1", "'", "b", "0">>, <<"&", "&">>, <<"!">>, <<"c">>>>,
   <<<<"(">>, <<"A">>, <<"&">>, <<"(">>, <<"B">>, <<"|">>, <<"C">>, <<")">>, <<")">>>>,
   <<<<"P", "A">>, <<"=", "=">>, <<"1", "'", "b", "0">>, <<"&", "&">>, <<"P", "B">>, <<"=", "=">>, <<"1", "'", "b", "1">>, <<"&", "&">>, <<"P", "S">>, <<"=", "=">>, <<"1", "'", "b", "1">>>>}

\* (COND expr (IOPATH a y () ()))
CondIopathText(expr) ==
  <<"(", "C", "O", "N", "D", " ">> \o expr
  \o <<" ", "(", "I", "O", "P", "A", "T", "H", " ", "a", " ", "y", " ", "(", ")", " ", "(", ")", ")", ")">>

\* (PERIOD (COND expr (negedge clk)) (1))
CondPeriodText(expr) ==
  <<"(", "P", "E", "R", "I", "O", "D", " ", "(", "C", "O", "N", "D", " ">> \o expr
  \o <<" ", "(", "n", "e", "g", "e", "d", "g", "e", " ", "c", "l", "k", ")", ")", " ", "(", "1", ")", ")">>

\* an input of the reader: the start symbol of the parser and the text
Input(startsym, text) == <<startsym, text>>

ExprInputs ==
  UNION {{Input("delay_condition", Spaced(e, g, 1)),
          Input("cond_delay", CondIopathText(Spaced(e, g, 1))),
          Input("period_check", CondPeriodText(Spaced(e, g, 1)))} :
         <<e, g>> \in Expressions \X GapStyles}

\* the numbers written in the triples
Numbers == {-1, 0, 1, 2, 3, 123}

\* a slot of a triple: nothing, or a number
Slots == {None} \cup {Some(n) : n \in Numbers}

\* the text of a slot
slot_text(v) == IF v = None THEN <<>> ELSE int_str(v[1])

\* (min:avg:max), each slot written or left empty
ColonTriple(mn, av, mx) ==
  <<"(">> \o slot_text(mn) \o <<":">> \o slot_text(av) \o <<":">>
  \o slot_text(mx) \o <<")">>

\* (n)
SingleTriple(n) == <<"(">> \o int_str(n) \o <<")">>

EmptyTriple == <<"(", ")">>

TripleInputs ==
  {Input("real_triple", ColonTriple(t[1], t[2], t[3])) :
     t \in (Slots \X Slots \X Slots) \ {<<None, None, None>>}}
  \cup {Input("real_triple", SingleTriple(n)) : n \in Numbers}
  \cup {Input("real_triple", EmptyTriple)}

\* (a:b), one colon only
OneColonTriple(a, b) ==
  <<"(">> \o slot_text(a) \o <<":">> \o slot_text(b) \o <<")">>

\* (INTERCONNECT ports delays)
InterconnectText(ports, delays) ==
  <<"(", "I", "N", "T", "E", "R", "C", "O", "N", "N", "E", "C", "T">> \o ports \o delays \o <<")">>

\* texts the grammar accepts, each with the start symbol of its rule
WellFormed ==
  {Input("real_triple", <<"(", "1", ":", "2", ":", "3", ")">>),
   Input("interconnect", InterconnectText(<<" ", "a", " ", "b">>, <<" ", "(", "1", ":", "2", ":", "3", ")">>)),
   Input("width_check", <<"(", "W", "I", "D", "T", "H", " ", "c", "l", "k", " ", "(", "4", ":", "7", ":", "1", "1", ")", ")">>),
   Input("cell",
         <<"(", "C", "E", "L", "L", " ", "(", "C", "E", "L", "L", "T", "Y", "P", "E", " ", "\"", "A", "N", "D", "2", "\"", ")", " ", "(", "I", "N", "S", "T", "A", "N", "C", "E", " ", "t", "o", "p", "/", "b", "/", "d", ")">>
         \o <<" ", "(", "D", "E", "L", "A", "Y", " ", "(", "A", "B", "S", "O", "L", "U", "T", "E", " ", "(", "I", "O", "P", "A", "T", "H", " ", "a", " ", "y", " ", "(", "1", ":", "2", ":", "3", ")", " ", "(", "2", ":", "3", ":", "4", ")", ")", ")", ")", ")">>),
   Input("sdf_file",
         <<"(", "D", "E", "L", "A", "Y", "F", "I", "L", "E", " ", "(", "S", "D", "F", "V", "E", "R", "S", "I", "O", "N", " ", "\"", "3", ".", "0", "\"", ")", " ", "(", "T", "I", "M", "E", "S", "C", "A", "L", "E", " ", "1", "0", "0", " ", "p", "s", ")", ")">>)}

\* a text without its first character, and without its last
Unopened(text) == Tail(text)

Unclosed(text) == SubSeq(text, 1, Len(text) - 1)

\* the malformed texts: (::), a missing parenthesis, one colon only, an
\* INTERCONNECT without a port or without its delay
MalformedInputs ==
  {Input("real_triple", ColonTriple(None, None, None))}
  \cup {Input(w[1], Unopened(w[2])) : w \in WellFormed}
  \cup {Input(w[1], Unclosed(w[2])) : w \in WellFormed}
  \cup {Input("real_triple", OneColonTriple(a, b)) : a, b \in Slots}
  \cup {Input("interconnect", InterconnectText(p, <<" ", "(", "1", ":", "2", ":", "3", ")">>)) :
          p \in {<<" ", "a">>, <<>>}}
  \cup {Input("interconnect", InterconnectText(<<" ", "a", " ", "b">>, <<>>))}

\* the port specs of the timing checks: a pin, with or without an edge, with
\* or without a condition (the tokens of its expression)
Pins == {<<"c", "l", "k">>, <<"d">>}

Conditions ==
  {<<<<"E", "N", "A", "B", "L", "E">>>>,
   <<<<"a", "/", "b">>, <<"=", "=">>, <<"1", "'", "b", "0">>, <<"&", "&">>, <<"!">>, <<"c">>>>}

PortSpecs ==
  [pin : Pins, edge : {None, Some(posedge), Some(negedge)},
   cond : {None} \cup {Some(c) : c \in Conditions}]

\* pin, or (edge pin)
EdgeText(p) ==
  IF p.edge = None THEN p.pin
  ELSE <<"(">> \o p.edge[1] \o <<" ">> \o p.pin \o <<")">>

\* the port spec as text: the pin with its edge, wrapped in COND if any
PortText(p) ==
  IF p.cond = None THEN EdgeText(p)
  ELSE <<"(", "C", "O", "N", "D", " ">> \o Spaced(p.cond[1], "space", 1) \o <<" ">>
       \o EdgeText(p) \o <<")">>

\* the checks with one port spec, and those with two
OnePortChecks == {<<"w", "i", "d", "t", "h">>, <<"p", "e", "r", "i", "o", "d">>}

TwoPortChecks ==
  {<<"n", "o", "c", "h", "a", "n", "g", "e">>,
   <<"s", "e", "t", "u", "p", "h", "o", "l", "d">>}

\* the start symbol for a check: the rule of the check, or timing_check
\* where the tests have none
check_rule(kind) ==
  CASE kind = <<"w", "i", "d", "t", "h">> -> "width_check"
    [] kind = <<"p", "e", "r", "i", "o", "d">> -> "period_check"
    [] kind = <<"n", "o", "c", "h", "a", "n", "g", "e">> -> "nochange_check"
    [] kind = <<"s", "e", "t", "u", "p", "h", "o", "l", "d">> -> "timing_check"

\* (KIND port (4:7:11))
OnePortText(kind, p) ==
  <<"(">> \o upper(kind) \o <<" ">> \o PortText(p)
  \o <<" ", "(", "4", ":", "7", ":", "1", "1", ")", ")">>

\* (KIND port1 port2 (1:2:3) (-1:0:1))
TwoPortText(kind, p, q) ==
  <<"(">> \o upper(kind) \o <<" ">> \o PortText(p) \o <<" ">>
  \o PortText(q) \o <<" ", "(", "1", ":", "2", ":", "3", ")", " ", "(", "-", "1", ":", "0", ":", "1", ")", ")">>

\* a check written in the item of its rule
CheckText(kind, text) ==
  IF check_rule(kind) = "timing_check"
  THEN <<"(", "T", "I", "M", "I", "N", "G", "C", "H", "E", "C", "K", " ">> \o text \o <<")">>
  ELSE text

\* two port specs of which at most one has a condition
PortPairs == {pq \in PortSpecs \X PortSpecs : pq[1].cond = None \/ pq[2].cond = None}

CheckInputs ==
  {Input(check_rule(k), CheckText(k, OnePortText(k, p))) :
     <<k, p>> \in OnePortChecks \X PortSpecs}
  \cup {Input(check_rule(k[1]), CheckText(k[1], TwoPortText(k[1], k[2][1], k[2][2]))) :
          k \in TwoPortChecks \X PortPairs}

\* the delay constructs written in a cell: the kind, the pins, the tokens of
\* the condition if any
Construct(type, from_pin, to_pin, cond) ==
  [type |-> type, from_pin |-> from_pin, to_pin |-> to_pin, cond |-> cond]

Constructs ==
  {Construct(<<"i", "o", "p", "a", "t", "h">>, <<"a">>, <<"y">>, None),
   Construct(<<"i", "o", "p", "a", "t", "h">>, <<"a">>, <<"y">>, Some(<<<<"b">>>>)),
   Construct(<<"i", "o", "p", "a", "t", "h">>, <<"a">>, <<"y">>, Some(<<<<"c">>>>)),
   Construct(<<"i", "o", "p", "a", "t", "h">>, <<"b">>, <<"y">>, None),
   Construct(<<"i", "n", "t", "e", "r", "c", "o", "n", "n", "e", "c", "t">>, <<"a">>, <<"y">>, None)}

\* (KIND from to (1:2:3)), wrapped in (COND expr ...) if it has a condition
PathText(c) ==
  <<" ", "(">> \o upper(c.type) \o <<" ">> \o c.from_pin \o <<" ">>
  \o c.to_pin \o <<" ", "(", "1", ":", "2", ":", "3", ")", ")">>

ConstructText(c) ==
  IF c.cond = None THEN PathText(c)
  ELSE <<" ", "(", "C", "O", "N", "D", " ">> \o Spaced(c.cond[1], "space", 1)
       \o PathText(c) \o <<")">>

\* the constructs of a list from the k-th on, one after the other
RECURSIVE ConstructsText(_, _)
ConstructsText(cs, k) ==
  IF k > Len(cs) THEN <<>>
  ELSE ConstructText(cs[k]) \o ConstructsText(cs, k + 1)

\* the lists of the constructs of one cell
ConstructLists == UNION {[1..n -> Constructs] : n \in 1..MaxConstructs}

\* (CELL (CELLTYPE "AND2") (INSTANCE top/b/d) (DELAY (ABSOLUTE constructs)))
CellText(cs) ==
  <<"(", "C", "E", "L", "L", " ", "(", "C", "E", "L", "L", "T", "Y", "P", "E", " ", "\"", "A", "N", "D", "2", "\"", ")", " ", "(", "I", "N", "S", "T", "A", "N", "C", "E", " ", "t", "o", "p", "/", "b", "/", "d", ")", " ", "(", "D", "E", "L", "A", "Y", " ", "(", "A", "B", "S", "O", "L", "U", "T", "E">>
  \o ConstructsText(cs, 1) \o <<")", ")", ")">>

\* (DELAYFILE (SDFVERSION "3.0") cells)
FileText(cells) ==
  <<"(", "D", "E", "L", "A", "Y", "F", "I", "L", "E", " ", "(", "S", "D", "F", "V", "E", "R", "S", "I", "O", "N", " ", "\"", "3", ".", "0", "\"", ")", " ">> \o cells \o <<")">>

\* the texts written part by part
ParseInputs ==
  ExprInputs \cup TripleInputs \cup MalformedInputs \cup CheckInputs

\* what a test gives the reader: the start symbol of the parser and the
\* text, with the constructs the text was written from if it is a cell
Test(startsym, text, constructs) ==
  [startsym |-> startsym, text |-> text, constructs |-> constructs]

(***************************************************************************)
(* The reader at work: a test builds the parser with a start symbol, then  *)
(* parses one text.                                                        *)
(***************************************************************************)
NoDocument ==
  [has_header |-> FALSE, header |-> <<>>, has_cells |-> FALSE, cells |-> <<>>]

ParseInit ==
  /\ sdfdata = NoDocument
  /\ pc = "test"
  /\ writer = "none"
  /\ \/ \E i \in ParseInputs : args = Test(i[1], i[2], <<>>)
     \/ \E cs \in ConstructLists : args = Test("cell", CellText(cs), cs)
     \/ \E c \in Constructs, d \in Constructs :
          args = Test("sdf_file",
                      FileText(CellText(<<c>>) \o <<"\n">> \o CellText(<<d>>)),
                      <<c, d>>)
  /\ result = NoResult
  /\ input_data = <<>>
  /\ parser = DefaultStart
  /\ disk = NoDisk
  /\ opened = {}

\* reconfigure(startsym = ...): sdfyacc.parser = yacc.yacc(start = startsym)
reconfigure(startsym) ==
  /\ pc = "test"
  /\ pc' = "configured"
  /\ parser' = startsym
  /\ UNCHANGED <<sdfdata, writer, args, result, input_data, filesystem>>

\* parse(input): sdflex.input_data = input, then
\* sdfyacc.parser.parse(sdflex.input_data)
parse(input) ==
  /\ pc = "configured"
  /\ pc' = "done"
  /\ input_data' = input
  /\ result' = yacc_parse(parser, input)
  /\ UNCHANGED <<sdfdata, writer, args, parser, filesystem>>

ParseNext == reconfigure(args.startsym) \/ parse(args.text)

ParseSpec == ParseInit /\ [][ParseNext]_vars

(***************************************************************************)
(* Callers of parse in two threads.  The parser object and the input text  *)
(* are attributes of the modules sdfyacc and sdflex, shared by all         *)
(* callers: parse stores its argument in sdflex.input_data and then hands  *)
(* what sdflex.input_data holds to sdfyacc.parser.                         *)
(***************************************************************************)
Threads == {1, 2}

\* the texts the callers parse
ThreadTexts ==
  {<<"(", "D", "E", "L", "A", "Y", "F", "I", "L", "E", " ", "(", "S", "D", "F", "V", "E", "R", "S", "I", "O", "N", " ", "\"", "3", ".", "0", "\"", ")", ")">>,
   <<"(", "D", "E", "L", "A", "Y", "F", "I", "L", "E", " ", "(", "S", "D", "F", "V", "E", "R", "S", "I", "O", "N", " ", "\"", "2", ".", "1", "\"", ")", ")">>,
   <<"(", "D", "E", "L", "A", "Y", "F", "I", "L", "E", " ", "(", "T", "I", "M", "E", "S", "C", "A", "L", "E", " ", "1", " ", "p", "s", ")", ")">>,
   <<"(", "1", ":", "2", ":", "3", ")">>}

\* the start symbols a caller of reconfigure gives
ThreadStarts == {"sdf_file", "real_triple"}

ThreadInit ==
  /\ sdfdata = NoDocument
  /\ pc = [t \in Threads |-> "call"]
  /\ writer = "none"
  /\ args \in [Threads -> ThreadTexts]
  /\ result = [t \in Threads |-> NoResult]
  /\ input_data = <<>>
  /\ parser = DefaultStart
  /\ disk = NoDisk
  /\ opened = {}

\* sdfyacc.parser = yacc.yacc(start = startsym), by any code of the process
build_parser(startsym) ==
  /\ parser # startsym
  /\ parser' = startsym
  /\ UNCHANGED <<sdfdata, pc, writer, args, result, input_data, filesystem>>

\* parse, lines 281-282: sdfparse.init(); sdflex.input_data = input
parse_input(t) ==
  /\ pc[t] = "call"
  /\ pc' = [pc EXCEPT ![t] = "parse"]
  /\ input_data' = args[t]
  /\ UNCHANGED <<sdfdata, writer, args, result, parser, filesystem>>

\* parse, line 283: return sdfyacc.parser.parse(sdflex.input_data)
parse_return(t) ==
  /\ pc[t] = "parse"
  /\ pc' = [pc EXCEPT ![t] = "done"]
  /\ result' = [result EXCEPT ![t] = yacc_parse(parser, input_data)]
  /\ UNCHANGED <<sdfdata, writer, args, input_data, parser, filesystem>>

ThreadNext ==
  \/ \E startsym \in ThreadStarts : build_parser(startsym)
  \/ \E t \in Threads : parse_input(t)
  \/ \E t \in Threads : parse_return(t)

ThreadSpec == ThreadInit /\ [][ThreadNext]_vars

(***************************************************************************)
(* utils/reformat.py: the tool reads each input file, parses it and        *)
(* prints the Document into a file of the same name in the target          *)
(* directory, or to the standard output.  One step of the model is one     *)
(* turn of the loop over the input files.                                  *)
(***************************************************************************)
\* the directories of the machine
isdir(dir) == dir \in {"in", "out"}

\* os.path.exists
exists(p) == disk[p] # None

\* the files the tool is started on: one or two of the files of "in"
InputLists ==
  UNION {[1..n -> {"in"} \X {"a", "b"}] : n \in 1..2}

\* the machines the tool is started on
Disks ==
  {d \in [Paths -> {None,
                    Some(<<"(", "D", "E", "L", "A", "Y", "F", "I", "L", "E", " ", "(", "S", "D", "F", "V", "E", "R", "S", "I", "O", "N", " ", "\"", "3", ".", "0", "\"", ")", ")">>),
                    Some(<<"(", "D", "E", "L", "A", "Y", "F", "I", "L", "E", " ", "(", "T", "I", "M", "E", "S", "C", "A", "L", "E", " ", "1", " ", "p", "s", ")", ")">>),
                    Some(<<"(", "1", ":", "2", ":", "3", ")">>),
                    Some(<<"o", "l", "d">>)}] :
     /\ d[<<"in", "a">>] \in {None, Some(<<"(", "D", "E", "L", "A", "Y", "F", "I", "L", "E", " ", "(", "S", "D", "F", "V", "E", "R", "S", "I", "O", "N", " ", "\"", "3", ".", "0", "\"", ")", ")">>), Some(<<"(", "1", ":", "2", ":", "3", ")">>)}
     /\ d[<<"in", "b">>] \in {None, Some(<<"(", "D", "E", "L", "A", "Y", "F", "I", "L", "E", " ", "(", "T", "I", "M", "E", "S", "C", "A", "L", "E", " ", "1", " ", "p", "s", ")", ")">>)}
     /\ d[<<"out", "a">>] \in {None, Some(<<"o", "l", "d">>)}
     /\ d[<<"out", "b">>] \in {None, Some(<<"o", "l", "d">>)}}

ReformatInit ==
  /\ sdfdata = NoDocument
  /\ pc = [at |-> "loop", i |-> 1]
  /\ writer = "none"
  /\ args \in [dir : {"in", "out", "nodir"}, stdout : BOOLEAN, force : BOOLEAN,
               indent : {2}, files : InputLists]
  /\ result = NoResult
  /\ input_data = <<>>
  /\ parser = DefaultStart
  /\ disk \in Disks
  /\ opened = {}

\* the loop is at the input file f
at_file(f) ==
  /\ pc.at = "loop"
  /\ isdir(args.dir)
  /\ f = args.files[pc.i]

\* the loop goes on to the next input file, or ends after the last one
next_file ==
  IF pc.i < Len(args.files) THEN [at |-> "loop", i |-> pc.i + 1]
  ELSE [at |-> "done", i |-> pc.i]

\* the tool ends with an exception nothing catches
failed == [at |-> "failed", i |-> pc.i]

\* sdfparse.parse(sdffile.read())
read_sdf(f) == yacc_parse(DefaultStart, disk[f][1])

\* os.path.join(args.dir, os.path.basename(f))
of(f) == <<args.dir, f[2]>>

\* args.dir is not a directory: the tool prints so and ends
NotADirectory ==
  /\ pc.at = "loop"
  /\ ~isdir(args.dir)
  /\ pc' = [at |-> "done", i |-> pc.i]
  /\ UNCHANGED <<sdfdata, writer, args, result, globals, filesystem>>

\* the input file does not exist: the tool prints so and goes on
DoesNotExist(f) ==
  /\ at_file(f)
  /\ ~exists(f)
  /\ pc' = next_file
  /\ UNCHANGED <<sdfdata, writer, args, result, globals, filesystem>>

\* the text of the input file does not parse: parse raises
ParseFails(f) ==
  /\ at_file(f)
  /\ exists(f)
  /\ ~read_sdf(f).ok
  /\ pc' = failed
  /\ UNCHANGED <<sdfdata, writer, args, result, globals, filesystem>>

\* --stdout: print_sdf(sdf, indent) prints to the standard output
ToStdout(f) ==
  /\ at_file(f)
  /\ exists(f)
  /\ read_sdf(f).ok
  /\ args.stdout
  /\ sdfdata' = read_sdf(f).value
  /\ writer' = "print_sdf"
  /\ result' = print_sdf(sdfdata', Sp(args.indent))
  /\ pc' = IF result'.ok THEN next_file ELSE failed
  /\ UNCHANGED <<args, globals, filesystem>>

\* the output file exists and --force is not given: nothing is written
AlreadyExists(f) ==
  /\ at_file(f)
  /\ exists(f)
  /\ read_sdf(f).ok
  /\ ~args.stdout
  /\ exists(of(f)) /\ ~args.force
  /\ sdfdata' = read_sdf(f).value
  /\ pc' = next_file
  /\ UNCHANGED <<writer, args, result, globals, filesystem>>

\* a tool that writes the output file whether it exists or not
WriteFile_unprotected(f) ==
  /\ at_file(f)
  /\ exists(f)
  /\ read_sdf(f).ok
  /\ ~args.stdout
  /\ sdfdata' = read_sdf(f).value
  /\ disk' = [disk EXCEPT ![of(f)] = Some(<<>>)]
  /\ opened' = opened \cup {of(f)}
  /\ writer' = "print_sdf"
  /\ result' = Raise(<<>>)
  /\ pc' = failed
  /\ UNCHANGED <<args, globals>>

\* open(of, 'w') makes the output file empty; the call of print_sdf with
\* the argument channel, which print_sdf does not have, raises TypeError
WriteFile(f) ==
  /\ at_file(f)
  /\ exists(f)
  /\ read_sdf(f).ok
  /\ ~args.stdout
  /\ ~(exists(of(f)) /\ ~args.force)
  /\ sdfdata' = read_sdf(f).value
  /\ disk' = [disk EXCEPT ![of(f)] = Some(<<>>)]
  /\ opened' = opened \cup {of(f)}
  /\ writer' = "print_sdf"
  /\ result' = Raise(<<>>)
  /\ pc' = failed
  /\ UNCHANGED <<args, globals>>

ReformatNext ==
  \/ NotADirectory
  \/ \E f \in Paths : DoesNotExist(f)
  \/ \E f \in Paths : ParseFails(f)
  \/ \E f \in Paths : ToStdout(f)
  \/ \E f \in Paths : AlreadyExists(f)
  \/ \E f \in Paths : WriteFile(f)

ReformatSpec == ReformatInit /\ [][ReformatNext]_vars

(***************************************************************************)
(* Notions the properties are stated with.                                 *)
(***************************************************************************)
Done == pc = "done"

\* the entries of a Document
EntriesOf(data) ==
  {data.cells[p[1]][2][p[2]][2][p[3]][2] : p \in EntryPlaces(data)}

\* the <<cell type, instance>> pairs of a Document
PairsOf(data) ==
  {<<data.cells[p[1]][1], data.cells[p[1]][2][p[2]][1]>> : p \in InstPlaces(data)}

\* the writer that ran, applied to another Document with the same arguments
Rerun(data) ==
  IF writer = "emit_sdf"
  THEN emit_sdf(data, args.timescale, args.uppercase_celltype)
  ELSE print_sdf(data, args.indent)

\* an optional number as the SDF text of a triple slot: empty when absent
SlotText(v) == IF v = None THEN <<>> ELSE int_str(v[1])

\* a triple as SDF text: () when empty, else (min:avg:max) with empty slots
TripleText(t) ==
  IF t.min = None /\ t.avg = None /\ t.max = None THEN <<"(", ")">>
  ELSE <<"(">> \o SlotText(t.min) \o <<":">> \o SlotText(t.avg) \o <<":">>
       \o SlotText(t.max) \o <<")">>

IsWs(c) == c = " " \/ c = "\n"

\* the first place from i on that holds no white space (Len + 1 if none)
NextText(text, i) ==
  LET J == {j \in i..Len(text) : ~IsWs(text[j])}
  IN IF J = {} THEN Len(text) + 1 ELSE CHOOSE j \in J : \A k \in J : j <= k

\* the first place from i on that holds the atom (Len + 1 if none)
NextAtom(text, i, atom) ==
  LET J == {j \in i..Len(text) : text[j] = atom}
  IN IF J = {} THEN Len(text) + 1 ELSE CHOOSE j \in J : \A k \in J : j <= k

\* an ascending set of places as a sequence
RECURSIVE Ascending(_)
Ascending(J) ==
  IF J = {} THEN <<>>
  ELSE LET m == CHOOSE j \in J : \A k \in J : j <= k
       IN <<m>> \o Ascending(J \ {m})

\* the <<cell type, instance>> pairs of an emitted text, in the order of the
\* text: the name between the quotes of each CELLTYPE item and the path of
\* the INSTANCE item that follows it
CellBlocks(text) ==
  LET at == Ascending({i \in 1..Len(text) : text[i] = "(CELLTYPE"})
  IN [n \in 1..Len(at) |->
        LET q == NextAtom(text, at[n], "(INSTANCE")
        IN <<SubSeq(text, at[n] + 3, NextAtom(text, at[n] + 3, "\"") - 1),
             SubSeq(text, q + 2, NextAtom(text, q + 2, ")") - 1)>>]

pair_less(a, b) == str_less(a[1], b[1]) \/ (a[1] = b[1] /\ str_less(a[2], b[2]))

\* a word of the text: the string between two of space, newline, parentheses
IsWord(w, text) ==
  \E i \in 2..(Len(text) - Len(w)) :
    /\ SubSeq(text, i, i + Len(w) - 1) = w
    /\ text[i - 1] \in {" ", "\n", "("}
    /\ text[i + Len(w)] \in {" ", "\n", ")"}

(***************************************************************************)
(* C1  Round trip: the text emitted for a Document parses back to the      *)
(* Document; in particular every entry of the Document is present in the   *)
(* emitted text.  Stated here by its particular part: whenever a writer    *)
(* returns text, the from_pin and the to_pin of every entry are words of   *)
(* the text.                                                               *)
(***************************************************************************)
C1_EntriesInText ==
  (Done /\ result.ok) =>
    \A e \in EntriesOf(sdfdata) :
      IsWord(e.from_pin, result.text) /\ IsWord(e.to_pin, result.text)

(***************************************************************************)
(* C2  The writer is total: every call of emit_sdf or print_sdf on a       *)
(* Document returns text and raises no error.                              *)
(***************************************************************************)
C2_WriterTotal == Done => result.ok

(***************************************************************************)
(* C3  Delay-triple rendering: in the text emit_sdf returns, the triples   *)
(* of every entry follow the port they belong to and are rendered () when  *)
(* all of min, avg, max are absent, else (min:avg:max) with every absent   *)
(* slot empty and every present slot as its value.                         *)
(***************************************************************************)
\* the triples of an entry in the order they are emitted, and what stands
\* between two of them
TriplesOf(e) ==
  IF e.delay_paths.form = "list" THEN e.delay_paths.items
  ELSE [i \in 1..Len(e.delay_paths.items) |-> e.delay_paths.items[i].value]

RECURSIVE JoinTriples(_, _, _)
JoinTriples(ts, sep, i) ==
  IF i > Len(ts) THEN <<>>
  ELSE (IF i > 1 THEN sep ELSE <<>>) \o TripleText(ts[i])
       \o JoinTriples(ts, sep, i + 1)

\* the end of the text of an entry: its last port, its triples, the closing
\* parenthesis
EntryTail(e) ==
  LET last_port ==
        IF e.is_absolute \/ e.is_incremental THEN output_str(e)
        ELSE IF e.is_timing_check THEN check_input_str(e)
        ELSE input_str(e)
      sep == IF e.is_absolute \/ e.is_incremental THEN <<>> ELSE <<" ">>
  IN last_port \o <<" ">> \o JoinTriples(TriplesOf(e), sep, 1) \o <<")">>

C4_HeaderTriple ==
  (Done /\ writer = "print_sdf" /\ result.ok
   /\ has_key(sdfdata.header, key_voltage)) =>
    LET v == get(sdfdata.header, key_voltage)
    IN Occurs(<<"(", "V", "O", "L", "T", "A", "G", "E", " ">>
              \o SlotText(v.min) \o <<":">> \o SlotText(v.avg) \o <<":">>
              \o SlotText(v.max) \o <<")">>, result.text)

(***************************************************************************)
(* C5  Sorted emission: the CELL blocks of the emitted text are the        *)
(* <<cell type, instance>> pairs of the Document in ascending order of     *)
(* cell-type name, then of instance name, whatever the insertion order.    *)
(***************************************************************************)
C5_SortedEmission ==
  (Done /\ result.ok) =>
    LET blocks == CellBlocks(result.text)
        name(c) == IF writer = "emit_sdf" /\ args.uppercase_celltype
                   THEN upper(c) ELSE c
    IN /\ Len(blocks) = Cardinality(PairsOf(sdfdata))
       /\ \E f \in [1..Len(blocks) -> PairsOf(sdfdata)] :
            /\ \A i \in 1..Len(blocks) : blocks[i] = <<name(f[i][1]), f[i][2]>>
            /\ \A i \in 1..Len(blocks), j \in 1..Len(blocks) :
                 i < j => pair_less(f[i], f[j])

(***************************************************************************)
(* C6  Determinism: the emitted text does not depend on the order in which *)
(* the cells, the instances and the entries were inserted: it is the text  *)
(* emitted for the Document with the same content inserted in ascending    *)
(* order.                                                                  *)
(***************************************************************************)
\* a dict with its items in ascending order of key
InOrder(d) == LET ks == sorted(d) IN [i \in 1..Len(ks) |-> <<ks[i], get(d, ks[i])>>]

\* the Document with cells, instances and entries in ascending order
Reinserted(data) ==
  LET insts(celldata) ==
        LET o == InOrder(celldata)
        IN [j \in 1..Len(o) |-> <<o[j][1], InOrder(o[j][2])>>]
      cells == LET o == InOrder(data.cells)
               IN [i \in 1..Len(o) |-> <<o[i][1], insts(o[i][2])>>]
  IN [data EXCEPT !.cells = cells]

C6_Determinism == Done => Rerun(Reinserted(sdfdata)) = result

(***************************************************************************)
(* C7  Header emission: the header items emitted are those of the          *)
(* Document: the text of print_sdf does not depend on the order in which   *)
(* the header mapping was filled, and emit_sdf emits no header item that   *)
(* the Document does not hold.                                             *)
(***************************************************************************)
\* the header in another order of insertion
Shuffled(header, p) == [i \in 1..Len(header) |-> header[p[i]]]

C7_HeaderEmission ==
  /\ (Done /\ writer = "print_sdf" /\ result.ok) =>
       \A p \in Permutations(1..Len(sdfdata.header)) :
         print_sdf([sdfdata EXCEPT !.header = Shuffled(@, p)], args.indent)
           = result
  /\ (Done /\ writer = "emit_sdf" /\ result.ok) =>
       /\ ~has_key(sdfdata.header, key_sdfversion) =>
            ~Occurs(<<"(">> \o upper(key_sdfversion), result.text)
       /\ ~has_key(sdfdata.header, key_timescale) =>
            ~Occurs(<<"(">> \o upper(key_timescale), result.text)

(***************************************************************************)
(* C8  Timescale rendering: a timescale of a number followed by a unit is  *)
(* emitted as (TIMESCALE <number> <unit>) with one space between number    *)
(* and unit: by print_sdf for the timescale of the header, by emit_sdf for *)
(* its timescale argument.                                                 *)
(***************************************************************************)
\* the length of the number a timescale starts with: digits and points
RECURSIVE NumberLen(_, _)
NumberLen(v, i) ==
  IF i <= Len(v) /\ (IsDigit(v[i]) \/ v[i] = ".")
  THEN 1 + NumberLen(v, i + 1) ELSE 0

TimescaleItem(v) ==
  LET n == NumberLen(v, 1)
  IN <<"(", "T", "I", "M", "E", "S", "C", "A", "L", "E", " ">>
     \o SubSeq(v, 1, n) \o <<" ">> \o SubSeq(v, n + 1, Len(v)) \o <<")">>

C8_Timescale ==
  /\ (Done /\ writer = "print_sdf" /\ has_key(sdfdata.header, key_timescale)) =>
       /\ result.ok
       /\ Occurs(TimescaleItem(get(sdfdata.header, key_timescale).s),
                 result.text)
  /\ (Done /\ writer = "emit_sdf" /\ result.ok) =>
       Occurs(TimescaleItem(args.timescale), result.text)

(***************************************************************************)
(* C9  Header-only Document: for a Document whose header holds only the    *)
(* SDF version "3.0" and that has no cells, print_sdf prints exactly the   *)
(* three lines (DELAYFILE, indent + (SDFVERSION "3.0"), and ).             *)
(***************************************************************************)
HeaderOnly ==
  /\ sdfdata.has_header
  /\ sdfdata.header = <<<<key_sdfversion, PyStr(<<"3", ".", "0">>)>>>>
  /\ sdfdata.cells = <<>>

IsIopath(e) ==
  /\ e.is_absolute \/ e.is_incremental
  /\ e.type = <<"i", "o", "p", "a", "t", "h">>

C10_CondIopath ==
  (Done /\ writer = "emit_sdf" /\ result.ok) =>
    /\ \A e \in EntriesOf(sdfdata) :
         (IsIopath(e) /\ e.is_cond) =>
           LET head == <<"(COND", " ">> \o e.cond_equation[1]
           IN \E i \in 1..Len(result.text) :
                /\ i + Len(head) <= Len(result.text)
                /\ SubSeq(result.text, i, i + Len(head) - 1) = head
                /\ IsWs(result.text[i + Len(head)])
                /\ NextText(result.text, i + Len(head)) <= Len(result.text)
                /\ result.text[NextText(result.text, i + Len(head))] = "(IOPATH"
    /\ (\A e \in EntriesOf(sdfdata) : ~e.is_cond) =>
         ~Occurs(<<"(COND">>, result.text)

(***************************************************************************)
(* Notions the properties of the reader are stated with.                   *)
(***************************************************************************)
\* the test parsed its text
Parsed == pc = "done"

\* the test gave the parser this start symbol and this text
Given(startsym, text) == args.startsym = startsym /\ args.text = text

\* the tokens with exactly one space between consecutive tokens
OneSpaced(toks) == Spaced(toks, "space", 1)

(***************************************************************************)
(* C11  Expression normalization: for every conditional expression the     *)
(* parser accepts, whatever white space the input has between its tokens,  *)
(* rule delay_condition gives the tokens of the expression in input order  *)
(* (parentheses are tokens), and the cond_equation of the COND IOPATH and  *)
(* of the PERIOD check with a COND port is these tokens joined with        *)
(* exactly one space between consecutive tokens.                           *)
(***************************************************************************)
C11_Normalized ==
  \A e \in Expressions, g \in GapStyles :
    /\ (Parsed /\ Given("delay_condition", Spaced(e, g, 1)) /\ result.ok)
         => result.value = e
    /\ (/\ Parsed
        /\ \/ Given("cond_delay", CondIopathText(Spaced(e, g, 1)))
           \/ Given("period_check", CondPeriodText(Spaced(e, g, 1)))
        /\ result.ok)
         => /\ Len(result.value) = 1
            /\ result.value[1].is_cond
            /\ result.value[1].cond_equation = Some(OneSpaced(e))

\* PA==1'b0&&PB==1'b1&&PS==1'b1 written without white space is accepted
C11_Witness ==
  /\ Parsed
  /\ Given("cond_delay",
           CondIopathText(<<"P", "A", "=", "=", "1", "'", "b", "0", "&", "&", "P", "B", "=", "=", "1", "'", "b", "1", "&", "&", "P", "S", "=", "=", "1", "'", "b", "1">>))
  /\ result.ok
  /\ result.value[1].cond_equation
       = Some(<<"P", "A", " ", "=", "=", " ", "1", "'", "b", "0", " ", "&", "&", " ", "P", "B", " ", "=", "=", " ", "1", "'", "b", "1", " ", "&", "&", " ", "P", "S", " ", "=", "=", " ", "1", "'", "b", "1">>)

(***************************************************************************)
(* C12  Triple parsing: () parses to min, avg and max all absent; a single *)
(* number n without colons parses to min = avg = max = n; min:avg:max with *)
(* none, any one or any two of the three slots left empty parses to these  *)
(* slots absent and every other slot equal to the number written, be it    *)
(* negative, zero or positive.                                             *)
(***************************************************************************)
C12_TripleParsing ==
  Parsed =>
    /\ Given("real_triple", EmptyTriple)
         => result = Value(Triple(None, None, None))
    /\ \A n \in Numbers :
         Given("real_triple", SingleTriple(n))
           => result = Value(Triple(Some(n), Some(n), Some(n)))
    /\ \A mn \in Slots, av \in Slots, mx \in Slots :
         (/\ <<mn, av, mx>> # <<None, None, None>>
          /\ Given("real_triple", ColonTriple(mn, av, mx)))
           => result = Value(Triple(mn, av, mx))

\* (-1::0) is parsed: avg is absent, min is -1 and max is 0
C12_Witness ==
  /\ Parsed
  /\ Given("real_triple", <<"(", "-", "1", ":", ":", "0", ")">>)
  /\ result.ok
  /\ result.value.min = Some(-1)
  /\ result.value.avg = None
  /\ result.value.max = Some(0)

(***************************************************************************)
(* C13  Malformed input fails: the parse of (::), of a triple or construct *)
(* without its opening or its closing parenthesis, of a triple with one    *)
(* colon only and of an INTERCONNECT without a port or without its delay   *)
(* ends in an error for the whole call: it returns no Document and no      *)
(* entry, neither a partial one nor one with coerced values.               *)
(***************************************************************************)
C13_MalformedFails ==
  (Parsed /\ Input(args.startsym, args.text) \in MalformedInputs)
    => result = SyntaxError

\* (::) was parsed and ended in an error
C13_Witness ==
  /\ Parsed
  /\ Given("real_triple", <<"(", ":", ":", ")">>)
  /\ ~result.ok

\* the condition of two port specs of which at most one has a condition
CondOf(p, q) == IF p.cond # None THEN p.cond ELSE q.cond

\* the entry is that of a timing check with the ports to and from
CheckEntry(e, kind, from, to) ==
  /\ e.type = kind
  /\ e.is_timing_check
  /\ e.from_pin = from.pin
  /\ e.from_pin_edge = from.edge
  /\ e.to_pin = to.pin
  /\ e.to_pin_edge = to.edge
  /\ e.is_cond = (CondOf(from, to) # None)
  /\ e.cond_equation
       = (IF CondOf(from, to) = None THEN None
          ELSE Some(OneSpaced(CondOf(from, to)[1])))

(***************************************************************************)
(* C14  Port specs of timing checks: for WIDTH and PERIOD the one port     *)
(* spec sets from_pin and to_pin to the same path and from_pin_edge and    *)
(* to_pin_edge to the same edge (absent without edge); for NOCHANGE and    *)
(* SETUPHOLD the first port spec sets to_pin and to_pin_edge, the second   *)
(* from_pin and from_pin_edge; a COND around either port spec sets is_cond *)
(* and cond_equation to the normalized expression; every such entry has    *)
(* is_timing_check true.                                                   *)
(***************************************************************************)
C14_PortMapping ==
  /\ \A k \in OnePortChecks, p \in PortSpecs :
       (/\ Parsed
        /\ parser = check_rule(k)
        /\ Given(check_rule(k), CheckText(k, OnePortText(k, p))))
         => /\ result.ok
            /\ Len(result.value) = 1
            /\ CheckEntry(result.value[1], k, p, p)
  /\ \A k \in TwoPortChecks, pq \in PortPairs :
       (/\ Parsed
        /\ parser = check_rule(k)
        /\ Given(check_rule(k), CheckText(k, TwoPortText(k, pq[1], pq[2]))))
         => /\ result.ok
            /\ Len(result.value) = 1
            /\ CheckEntry(result.value[1], k, pq[2], pq[1])

\* (NOCHANGE d (COND ENABLE (posedge clk)) (1:2:3) (-1:0:1)) is parsed: the
\* first port is to_pin, the second from_pin
C14_Witness ==
  /\ Parsed
  /\ Given("nochange_check",
           <<"(", "N", "O", "C", "H", "A", "N", "G", "E", " ", "d", " ", "(", "C", "O", "N", "D", " ", "E", "N", "A", "B", "L", "E", " ", "(", "p", "o", "s", "e", "d", "g", "e", " ", "c", "l", "k", ")", ")">>
           \o <<" ", "(", "1", ":", "2", ":", "3", ")", " ", "(", "-", "1", ":", "0", ":", "1", ")", ")">>)
  /\ result.ok
  /\ result.value[1].to_pin = <<"d">>
  /\ result.value[1].to_pin_edge = None
  /\ result.value[1].from_pin = <<"c", "l", "k">>
  /\ result.value[1].from_pin_edge = Some(posedge)
  /\ result.value[1].is_cond

\* the entries read for the instance of the texts
EntriesRead(cells) ==
  get(get(cells, <<"A", "N", "D", "2">>), <<"t", "o", "p", "/", "b", "/", "d">>)

\* <kind>_<from_pin>_<to_pin>
PlainKey(c) == c.type \o <<"_">> \o c.from_pin \o <<"_">> \o c.to_pin

\* two constructs of the same kind on the same pins
Collide(c, d) ==
  c.type = d.type /\ c.from_pin = d.from_pin /\ c.to_pin = d.to_pin

\* the entry is that of the construct
EntryFor(e, c) ==
  /\ e.type = c.type
  /\ e.from_pin = c.from_pin
  /\ e.to_pin = c.to_pin
  /\ e.cond_equation
       = (IF c.cond = None THEN None ELSE Some(OneSpaced(c.cond[1])))

\* the mapping es of an instance holds the constructs cs, each under its key
KeysOf(es, cs) ==
  /\ Len(es) = Len(cs)
  /\ \A i \in 1..Len(es), j \in 1..Len(es) : i # j => es[i][1] # es[j][1]
  /\ \A i \in 1..Len(cs) : \E j \in 1..Len(es) : EntryFor(es[j][2], cs[i])
  /\ \A i \in 1..Len(cs) :
       (\A j \in 1..Len(cs) : j # i => ~Collide(cs[i], cs[j]))
         => /\ has_key(es, PlainKey(cs[i]))
            /\ EntryFor(get(es, PlainKey(cs[i])), cs[i])

(***************************************************************************)
(* C15  Entry keys are unique and lose nothing: after parse, the mapping   *)
(* of an instance has as many entries as timing constructs are written for *)
(* the instance in the input, in one CELL or in several; a construct that  *)
(* collides with no other has the key <kind>_<from_pin>_<to_pin>; two      *)
(* constructs of the same kind on the same pins have two distinct keys.    *)
(* The texts are one cell with a list of constructs, and a file with two   *)
(* cells of the same cell type and instance with one construct each.       *)
(* (The same keys on every run: the reader is a function of its text.)     *)
(***************************************************************************)
C15_UniqueKeys ==
  (Parsed /\ args.constructs # <<>>) =>
    /\ result.ok
    /\ parser = "cell"
         => KeysOf(EntriesRead(result.value), args.constructs)
    /\ parser = "sdf_file"
         => KeysOf(EntriesRead(result.value.cells), args.constructs)

\* two COND IOPATHs on the pins a and y with the conditions b and c are read
\* into two entries
C15_Witness ==
  /\ Parsed
  /\ Given("cell",
           <<"(", "C", "E", "L", "L", " ", "(", "C", "E", "L", "L", "T", "Y", "P", "E", " ", "\"", "A", "N", "D", "2", "\"", ")", " ", "(", "I", "N", "S", "T", "A", "N", "C", "E", " ", "t", "o", "p", "/", "b", "/", "d", ")", " ", "(", "D", "E", "L", "A", "Y", " ", "(", "A", "B", "S", "O", "L", "U", "T", "E">>
           \o <<" ", "(", "C", "O", "N", "D", " ", "b", " ", "(", "I", "O", "P", "A", "T", "H", " ", "a", " ", "y", " ", "(", "1", ":", "2", ":", "3", ")", ")", ")">>
           \o <<" ", "(", "C", "O", "N", "D", " ", "c", " ", "(", "I", "O", "P", "A", "T", "H", " ", "a", " ", "y", " ", "(", "1", ":", "2", ":", "3", ")", ")", ")">>
           \o <<")", ")", ")">>)
  /\ result.ok
  /\ Len(EntriesRead(result.value)) = 2
  /\ EntriesRead(result.value)[1][1] # EntriesRead(result.value)[2][1]

(***************************************************************************)
(* C16  parse depends on its text argument only: under every sequence and  *)
(* every interleaving of calls (two threads that parse different texts at  *)
(* the same time, a call after the parser was rebuilt with another start   *)
(* symbol), each call returns what it returns when it runs alone on its    *)
(* own text: the result of the parser of the module, with the start symbol *)
(* of the grammar, on the text given to this call.                         *)
(***************************************************************************)
C16_TextOnly ==
  \A t \in Threads :
    pc[t] = "done" => result[t] = yacc_parse(DefaultStart, args[t])

(***************************************************************************)
(* Notions the properties of the blocks of an instance are stated with.    *)
(***************************************************************************)
\* the places of the text that hold the atom
PlacesOf(text, atom) == {i \in 1..Len(text) : text[i] = atom}

\* the place where the part of the text for the instance written at place i
\* ends: the next CELLTYPE item, or the end of the text
InstanceEnd(text, i) == NextAtom(text, i, "(CELLTYPE") - 1

\* the places of the atom in the part of the text for the instance at place i
InInstance(text, i, atom) ==
  {j \in i..InstanceEnd(text, i) : text[j] = atom}

BlockAtoms ==
  {"(DELAY", "(ABSOLUTE", "(INCREMENT", "(INCREMENTAL", "(TIMINGCHECK",
   "(TIMINGENV"}

(***************************************************************************)
(* C18  Empty sections are omitted: no block the writer emits (DELAY,      *)
(* ABSOLUTE, INCREMENT, TIMINGCHECK, TIMINGENV) is empty, i.e. closed      *)
(* right after its keyword; and the text has a DELAY block only when the   *)
(* Document has an absolute or incremental entry, an ABSOLUTE (INCREMENT)  *)
(* block only when it has an absolute (incremental) entry, a TIMINGCHECK   *)
(* block only when it has a timing-check entry, a TIMINGENV block only     *)
(* when it has a timing-env entry.                                         *)
(***************************************************************************)
C18_NoEmptyBlock ==
  (Done /\ result.ok) =>
    /\ \A i \in 1..Len(result.text) :
         result.text[i] \in BlockAtoms
           => /\ NextText(result.text, i + 1) <= Len(result.text)
              /\ result.text[NextText(result.text, i + 1)] # ")"
    /\ PlacesOf(result.text, "(DELAY") # {}
         => \E e \in EntriesOf(sdfdata) : e.is_absolute \/ e.is_incremental
    /\ PlacesOf(result.text, "(ABSOLUTE") # {}
         => \E e \in EntriesOf(sdfdata) : e.is_absolute
    /\ PlacesOf(result.text, "(INCREMENT") # {}
         => \E e \in EntriesOf(sdfdata) : e.is_incremental
    /\ PlacesOf(result.text, "(TIMINGCHECK") # {}
         => \E e \in EntriesOf(sdfdata) : e.is_timing_check
    /\ PlacesOf(result.text, "(TIMINGENV") # {}
         => \E e \in EntriesOf(sdfdata) : e.is_timing_env

(***************************************************************************)
(* C19  Section order within an instance: in the part of the text for one  *)
(* instance there is at most one DELAY block, at most one TIMINGCHECK      *)
(* block and at most one TIMINGENV block, and a DELAY block comes before a *)
(* TIMINGCHECK block, which comes before a TIMINGENV block.                *)
(***************************************************************************)
C19_SectionOrder ==
  (Done /\ result.ok) =>
    \A i \in PlacesOf(result.text, "(INSTANCE") :
      /\ Cardinality(InInstance(result.text, i, "(DELAY")) <= 1
      /\ Cardinality(InInstance(result.text, i, "(TIMINGCHECK")) <= 1
      /\ Cardinality(InInstance(result.text, i, "(TIMINGENV")) <= 1
      /\ \A d \in InInstance(result.text, i, "(DELAY"),
            c \in InInstance(result.text, i, "(TIMINGCHECK") : d < c
      /\ \A c \in InInstance(result.text, i, "(DELAY")
                  \cup InInstance(result.text, i, "(TIMINGCHECK"),
            v \in InInstance(result.text, i, "(TIMINGENV") : c < v


(***************************************************************************)
(* C20  ABSOLUTE/INCREMENT split: the sub-blocks of DELAY have the         *)
(* keywords ABSOLUTE and INCREMENT and no other: what follows the keyword  *)
(* DELAY is one of the two, the text for a Document with an absolute       *)
(* entry has an ABSOLUTE sub-block and the text for a Document with an     *)
(* incremental entry has an INCREMENT sub-block.                           *)
(***************************************************************************)
C20_AbsoluteIncrement ==
  (Done /\ result.ok) =>
    /\ \A i \in PlacesOf(result.text, "(DELAY") :
         /\ NextText(result.text, i + 1) <= Len(result.text)
         /\ result.text[NextText(result.text, i + 1)]
              \in {"(ABSOLUTE", "(INCREMENT"}
    /\ (\E e \in EntriesOf(sdfdata) : e.is_absolute)
         => PlacesOf(result.text, "(ABSOLUTE") # {}
    /\ (\E e \in EntriesOf(sdfdata) : e.is_incremental)
         => PlacesOf(result.text, "(INCREMENT") # {}

\* the places of the atom between place i and the next CELL keyword
InCell(text, i, atom) ==
  {j \in i..(NextAtom(text, i + 1, "(CELL") - 1) : text[j] = atom}

(***************************************************************************)
(* C21  One CELL block per instance: in the text a writer returns, every   *)
(* CELL block holds exactly one CELLTYPE item and exactly one INSTANCE     *)
(* item, and there are as many CELL blocks as the Document has (cell type, *)
(* instance) pairs, also when a cell type has two or more instances.       *)
(***************************************************************************)
C21_OneCellPerInstance ==
  (Done /\ result.ok) =>
    /\ Cardinality(PlacesOf(result.text, "(CELL"))
         = Cardinality(InstPlaces(sdfdata))
    /\ \A i \in PlacesOf(result.text, "(CELL") :
         /\ Cardinality(InCell(result.text, i, "(CELLTYPE")) = 1
         /\ Cardinality(InCell(result.text, i, "(INSTANCE")) = 1

\* a text without its white space
NotWs(c) == ~IsWs(c)

Squeeze(text) == SelectSeq(text, NotWs)

\* a port spec without its white space: the bare path, or (edge path)
PortSpec(edge, pin) ==
  IF edge = None THEN pin ELSE <<"(">> \o edge[1] \o pin \o <<")">>

\* the port spec of from_pin, inside its COND wrapper when the check has one
CondPortSpec(e) ==
  IF e.is_cond
  THEN <<"(COND">> \o e.cond_equation[1]
       \o PortSpec(e.from_pin_edge, e.from_pin) \o <<")">>
  ELSE PortSpec(e.from_pin_edge, e.from_pin)

\* the kinds of timing check that take one port spec
OnePortKinds == {<<"w", "i", "d", "t", "h">>, <<"p", "e", "r", "i", "o", "d">>}

\* a timing check up to the end of its first triple, without white space
CheckHead(e) ==
  <<"(">> \o upper(e.type)
  \o (IF e.type \in OnePortKinds
      THEN PortSpec(e.from_pin_edge, e.from_pin)
      ELSE PortSpec(e.to_pin_edge, e.to_pin) \o CondPortSpec(e))
  \o TripleText(e.delay_paths.items[1].value)

(***************************************************************************)
(* C22  Single-port checks are emitted with a single port: in the text of  *)
(* emit_sdf a timing check of a one-port kind (WIDTH, PERIOD; from_pin     *)
(* equals to_pin) has exactly one port spec between its keyword and its    *)
(* triple, the output-pin field being suppressed; a check of a two-port    *)
(* kind has the to_pin port spec first and the from_pin port spec second.  *)
(***************************************************************************)
C22_SinglePort ==
  (Done /\ writer = "emit_sdf" /\ result.ok) =>
    \A e \in EntriesOf(sdfdata) :
      e.is_timing_check => Occurs(CheckHead(e), Squeeze(result.text))

(***************************************************************************)
(* C23  Overwrite protection of the reformat tool: in every step of the    *)
(* tool a file is opened for writing or changed only when --stdout is not  *)
(* given and the file did not exist or --force is given; and at an input   *)
(* file (one the tool reads and parses) whose output path exists, with     *)
(* neither --force nor --stdout, the step leaves every file as it was,     *)
(* opens none for writing and goes on to the next input file.              *)
(***************************************************************************)
C23_OverwriteProtection ==
  [][/\ \A p \in Paths :
          (disk'[p] # disk[p] \/ p \in opened' \ opened)
            => (~args.stdout /\ (~exists(p) \/ args.force))
     /\ \A f \in Paths :
          (/\ at_file(f)
           /\ exists(f)
           /\ read_sdf(f).ok
           /\ ~args.stdout
           /\ ~args.force
           /\ exists(of(f)))
            => (disk' = disk /\ opened' = opened /\ pc' = next_file)]_vars

\* the tool left the existing output file of its first input file alone
\* and is at its second input file
C23_Witness ==
  /\ pc.at = "loop"
  /\ pc.i = 2
  /\ isdir(args.dir)
  /\ ~args.stdout
  /\ ~args.force
  /\ exists(args.files[1])
  /\ disk[of(args.files[1])] = Some(<<"o", "l", "d">>)
  /\ opened = {}

\* the atoms that open a parenthesis
OpenAtoms ==
  {"(", "(DELAYFILE", "(CELL", "(CELLTYPE", "(INSTANCE", "(DELAY",
   "(ABSOLUTE", "(INCREMENT", "(INCREMENTAL", "(TIMINGCHECK", "(TIMINGENV",
   "(COND", "(IOPATH", "(PORT", "(INTERCONNECT", "(DEVICE",
   "(PATHCONSTRAINT"}

\* the count of open parentheses after the first i places of the text
Depth(text, i) ==
  Cardinality({j \in 1..i : text[j] \in OpenAtoms})
  - Cardinality({j \in 1..i : text[j] = ")"})

\* a text with balanced parentheses; the count can drop only at a closing one
Balanced(text) ==
  /\ \A i \in PlacesOf(text, ")") : Depth(text, i) >= 0
  /\ Depth(text, Len(text)) = 0

(***************************************************************************)
(* C24  Balanced output: for a Document whose cond_equation strings have   *)
(* balanced parentheses, the text a writer returns has balanced            *)
(* parentheses: read left to right the count of open parentheses never     *)
(* drops below zero and is zero at the end, and the first (DELAYFILE is    *)
(* closed by the last closing parenthesis, not before.                     *)
(***************************************************************************)
C24_Balanced ==
  (/\ Done
   /\ result.ok
   /\ \A e \in EntriesOf(sdfdata) :
        e.is_cond => Balanced(e.cond_equation[1])) =>
    /\ Balanced(result.text)
    /\ result.text[1] = "(DELAYFILE"
    /\ result.text[Len(result.text)] = ")"
    /\ \A i \in PlacesOf(result.text, ")") :
         i < Len(result.text) => Depth(result.text, i) > 0

\* emit_sdf returned the text of a conditional IOPATH whose equation has
\* parentheses
C24_Witness ==
  /\ Done
  /\ writer = "emit_sdf"
  /\ result.ok
  /\ \E e \in EntriesOf(sdfdata) :
       e.is_cond /\ e.is_absolute /\ Occurs(<<"(">>, e.cond_equation[1])

\* a port as the writer is to emit it: (edge path), or the bare path
PortWritten(edge, pin, text) ==
  IF edge = None THEN IsWord(pin, text)
  ELSE Occurs(<<"(">> \o edge[1] \o <<" ">> \o pin \o <<")">>, text)

(***************************************************************************)
(* C25  Names are emitted verbatim: in the text emit_sdf returns, each     *)
(* cell-type name (in upper case when uppercase_celltype is given) with    *)
(* its instance name, each pin path (a port with an edge as (posedge path) *)
(* or (negedge path), a port without an edge as the bare path) and each    *)
(* cond_equation appears character for character as stored, whatever       *)
(* characters it holds, the text None included.                            *)
(***************************************************************************)
C25_Verbatim ==
  (Done /\ writer = "emit_sdf" /\ result.ok) =>
    /\ \A pair \in PairsOf(sdfdata) :
         \E n \in 1..Len(CellBlocks(result.text)) :
           CellBlocks(result.text)[n]
             = <<IF args.uppercase_celltype THEN upper(pair[1]) ELSE pair[1],
                 pair[2]>>
    /\ \A e \in EntriesOf(sdfdata) :
         /\ PortWritten(e.from_pin_edge, e.from_pin, result.text)
         /\ PortWritten(e.to_pin_edge, e.to_pin, result.text)
         /\ e.is_cond => Occurs(e.cond_equation[1], result.text)

====
